---- MODULE Spec2Model ----
(***************************************************************************)
(* GSTInvoicePro backend: the invoice endpoints (create, update, delete),  *)
(* the NIC JSON import, and the invoice-numbering counter of the business  *)
(* profile.  The persisted tables are the variables; one action is one     *)
(* request handled from its first query to its commit or rollback.         *)
(* Money is counted in thousandths of a rupee (a tenth of a paisa) so that *)
(* the float products of the code (subtotal * rate / 100, subtotal * rate  *)
(* / 200) are exact on the amounts enumerated here and rounding to two     *)
(* decimals is a rounding.                                                 *)
(***************************************************************************)
EXTENDS Integers, Sequences, FiniteSets, TLC

(***************************************************************************)
(* Bounds of the model.                                                    *)
(***************************************************************************)
\* invoice ids the id sequence of the invoices table may hand out
MaxInvoiceId == 2
\* the years datetime.now().year runs through
FirstYear == 2025
LastYear == 2026
\* requests handled at the same time
NumWorkers == 2
\* business profile ids the id sequence of the business_profiles table may hand out
MaxBusinessProfileId == 5

(***************************************************************************)
(* Python None.  Optional numbers are <<>> (None) or <<v>>; optional       *)
(* strings and enums use the string "None"; optional ids use NoId.         *)
(***************************************************************************)
Null == <<>>
Some(v) == <<v>>
NoneStr == "None"
NoId == 0 - 1

\* x or 0
OrZero(x) == IF x = Null THEN 0 ELSE x[1]
\* v or None, for a number v
OrNone(v) == IF v = 0 THEN Null ELSE Some(v)
\* truthiness of an Optional[int] id: None and 0 are falsy
Truthy(id) == id # NoId /\ id # 0
\* truthiness of an Optional[str]: None and "" are falsy
TruthyStr(s) == s # NoneStr /\ s # ""

(***************************************************************************)
(* Enumerations of app/models/invoice.py.                                  *)
(***************************************************************************)
IGST == "IGST"
CGST_SGST == "CGST_SGST"
TaxType == {IGST, CGST_SGST}

DRAFT == "Draft"
FINALIZED == "Finalized"
SENT == "Sent"
E_INVOICE == "E-Invoice"
GST_FILED == "GST-Filed"
ARCHIVED == "Archived"
APPROVED == "Approved"
InvoiceStatus == {DRAFT, FINALIZED, SENT, E_INVOICE, GST_FILED, ARCHIVED, APPROVED}

(***************************************************************************)
(* Strings the code formats and slices are sequences of one-character      *)
(* strings.                                                                *)
(***************************************************************************)
\* str.upper() on one character
UpperChar(c) ==
  CASE c = "a" -> "A" [] c = "b" -> "B" [] c = "c" -> "C" [] c = "d" -> "D"
    [] c = "e" -> "E" [] c = "f" -> "F" [] c = "g" -> "G" [] c = "h" -> "H"
    [] c = "i" -> "I" [] c = "j" -> "J" [] c = "k" -> "K" [] c = "l" -> "L"
    [] c = "m" -> "M" [] c = "n" -> "N" [] c = "o" -> "O" [] c = "p" -> "P"
    [] c = "q" -> "Q" [] c = "r" -> "R" [] c = "s" -> "S" [] c = "t" -> "T"
    [] c = "u" -> "U" [] c = "v" -> "V" [] c = "w" -> "W" [] c = "x" -> "X"
    [] c = "y" -> "Y" [] c = "z" -> "Z"
    [] OTHER -> c

Upper(s) == [i \in 1..Len(s) |-> UpperChar(s[i])]

\* s[:n]
Prefix(s, n) == SubSeq(s, 1, IF Len(s) < n THEN Len(s) ELSE n)
\* s[-n:]
Suffix(s, n) == SubSeq(s, IF Len(s) < n THEN 1 ELSE Len(s) - n + 1, Len(s))

DigitChar(d) ==
  CASE d = 0 -> "0" [] d = 1 -> "1" [] d = 2 -> "2" [] d = 3 -> "3" [] d = 4 -> "4"
    [] d = 5 -> "5" [] d = 6 -> "6" [] d = 7 -> "7" [] d = 8 -> "8" [] d = 9 -> "9"

\* str(n) for n >= 0
RECURSIVE Str(_)
Str(n) == IF n < 10 THEN <<DigitChar(n)>> ELSE Append(Str(n \div 10), DigitChar(n % 10))

RECURSIVE Zeros(_)
Zeros(k) == IF k <= 0 THEN <<>> ELSE <<"0">> \o Zeros(k - 1)

\* f"{n:05d}": at least w characters, zero-filled on the left
ZeroPad(n, w) == Zeros(w - Len(Str(n))) \o Str(n)


\* the characters after the last "-" of s (all of s when it has none)
RECURSIVE LastSegment(_)
LastSegment(s) ==
  IF s = <<>> THEN <<>>
  ELSE IF s[Len(s)] = "-" THEN <<>>
  ELSE Append(LastSegment(SubSeq(s, 1, Len(s) - 1)), s[Len(s)])

DigitValue(c) ==
  CASE c = "0" -> 0 [] c = "1" -> 1 [] c = "2" -> 2 [] c = "3" -> 3 [] c = "4" -> 4
    [] c = "5" -> 5 [] c = "6" -> 6 [] c = "7" -> 7 [] c = "8" -> 8 [] c = "9" -> 9
    [] OTHER -> 0 - 1

\* int(s) for a string of decimal digits
RECURSIVE IntOf(_)
IntOf(s) ==
  IF s = <<>> THEN 0
  ELSE 10 * IntOf(SubSeq(s, 1, Len(s) - 1)) + DigitValue(s[Len(s)])

\* the numeric suffix of an invoice number
NumericSuffix(invoice_number) == IntOf(LastSegment(invoice_number))

(***************************************************************************)
(* The records the endpoints only read: users, customers.  Customers are   *)
(* rows of the customers table; no handler modelled here writes them.      *)
(***************************************************************************)
CurrentUser == 1
OtherUser == 2

Karnataka == "Karnataka"
Maharashtra == "Maharashtra"

Customers ==
  [i \in 1..4 |->
     CASE i = 1 -> [user_id |-> CurrentUser, state |-> Karnataka, gstin |-> "29CCCCC0000C1Z9"]
       [] i = 2 -> [user_id |-> CurrentUser, state |-> Maharashtra, gstin |-> "27BBBBB0000B1Z2"]
       [] i = 3 -> [user_id |-> OtherUser, state |-> Karnataka, gstin |-> "29DDDDD0000D1Z7"]
       \* gstin is optional: an unregistered customer
       [] i = 4 -> [user_id |-> CurrentUser, state |-> Karnataka, gstin |-> NoneStr]]

\* the business_profiles table after construction: current_invoice_number
\* and is_default start at their column defaults, 1 and False
InitialBusinessProfiles ==
  [i \in 1..3 |->
     CASE i = 1 -> [user_id |-> CurrentUser, name |-> <<"A", "c", "m", "e">>,
                    state |-> Karnataka, gstin |-> "29AAAAA0000A1Z5",
                    current_invoice_number |-> 1, is_default |-> FALSE]
       [] i = 2 -> [user_id |-> CurrentUser, name |-> <<"a", "c", "o", "r", "n">>,
                    state |-> Maharashtra, gstin |-> "27AAAAA0000A1Z9",
                    current_invoice_number |-> 1, is_default |-> FALSE]
       [] i = 3 -> [user_id |-> OtherUser, name |-> <<"Z", "e", "d">>,
                    state |-> Karnataka, gstin |-> "29ZZZZZ0000Z1Z1",
                    current_invoice_number |-> 1, is_default |-> FALSE]]

\* the products table after construction (tax_rate in percent); hsn_sac and
\* unit are nullable
InitialProducts ==
  [i \in 1..4 |->
     CASE i = 1 -> [user_id |-> CurrentUser, name |-> "Web Development",
                    hsn_sac |-> "998314", tax_rate |-> 18, unit |-> "NOS"]
       [] i = 2 -> [user_id |-> CurrentUser, name |-> "Rice",
                    hsn_sac |-> "1006", tax_rate |-> 0, unit |-> "KGS"]
       [] i = 3 -> [user_id |-> OtherUser, name |-> "Consulting",
                    hsn_sac |-> "998311", tax_rate |-> 18, unit |-> "NOS"]
       [] i = 4 -> [user_id |-> CurrentUser, name |-> "Support",
                    hsn_sac |-> NoneStr, tax_rate |-> 18, unit |-> NoneStr]]

(***************************************************************************)
(* The state: the tables, the id sequence of the invoices table, the       *)
(* clock's year, the response the last request got, and the numbers the   *)
(* callers of create_invoice were given.                                   *)
(***************************************************************************)
VARIABLES
  business_profiles,  \* id -> row of business_profiles
  products,           \* id -> row of products
  invoices,           \* id -> row of invoices
  invoice_items,      \* invoice id -> the rows of invoice_items with that invoice_id
  invoice_id_seq,     \* next value of invoices.id
  current_year,       \* datetime.now().year
  response,           \* what the last request returned or raised
  issued,             \* business profile id -> the invoice numbers create_invoice returned
  sessions,           \* worker -> the open Session of the request it is handling
  call                \* the utility function called last, its arguments and its outcome

tables == <<business_profiles, products, invoices, invoice_items>>
vars == <<business_profiles, products, invoices, invoice_items, invoice_id_seq,
          current_year, response, issued, sessions, call>>

\* a function with one more (or one replaced) entry
Put(f, k, v) == [x \in DOMAIN f \cup {k} |-> IF x = k THEN v ELSE f[x]]
\* a function without an entry
Drop(f, k) == [x \in DOMAIN f \ {k} |-> f[x]]

(***************************************************************************)
(* Queries.  Each is .filter(id == ..., user_id == ...).first(): the id of *)
(* the row when it exists and belongs to the user, NoId otherwise.         *)
(***************************************************************************)
FindBusinessProfile(id, user) ==
  IF id \in DOMAIN business_profiles /\ business_profiles[id].user_id = user
  THEN id ELSE NoId

FindCustomer(id, user) ==
  IF id \in DOMAIN Customers /\ Customers[id].user_id = user THEN id ELSE NoId

FindProduct(id, user) ==
  IF id \in DOMAIN products /\ products[id].user_id = user THEN id ELSE NoId

\* .join(BusinessProfile).filter(Invoice.id == ..., BusinessProfile.user_id == ...)
FindInvoice(id, user) ==
  IF /\ id \in DOMAIN invoices
     /\ invoices[id].business_profile_id \in DOMAIN business_profiles
     /\ business_profiles[invoices[id].business_profile_id].user_id = user
  THEN id ELSE NoId

\* the jurisdiction decision turned round
DetermineTaxType_Swapped(business_state, customer_state) ==
  IF business_state = customer_state THEN IGST ELSE CGST_SGST

(***************************************************************************)
(* Jurisdiction, numbering and status policy of create_invoice.            *)
(***************************************************************************)
\* TaxType.IGST if business_profile.state != customer.state else CGST_SGST
DetermineTaxType(business_state, customer_state) ==
  IF business_state # customer_state THEN IGST ELSE CGST_SGST

\* str(current_year)[-2:]
YearSuffix(year) == Suffix(Str(year), 2)

\* business_profile.name[:2].upper() if business_profile.name else "IN"
BusinessPrefix(name) == IF name # <<>> THEN Upper(Prefix(name, 2)) ELSE <<"I", "N">>

\* the number without the zero fill of its sequence part
GenerateInvoiceNumber_Unpadded(business_profile, year) ==
  BusinessPrefix(business_profile.name) \o <<"-", "I", "N", "V", "-">>
    \o YearSuffix(year) \o <<"-">>
    \o Str(business_profile.current_invoice_number)

\* f"{business_prefix}-INV-{year_suffix}-{current_invoice_number:05d}"
GenerateInvoiceNumber(business_profile, year) ==
  BusinessPrefix(business_profile.name) \o <<"-", "I", "N", "V", "-">>
    \o YearSuffix(year) \o <<"-">>
    \o ZeroPad(business_profile.current_invoice_number, 5)

\* the draft's own number when it has the attribute and it is non-empty,
\* else the generated one; InvoiceCreate declares no invoice_number field
InvoiceNumberOf(invoice_in, business_profile, year) ==
  IF "invoice_number" \in DOMAIN invoice_in /\ invoice_in["invoice_number"] # <<>>
  THEN invoice_in["invoice_number"]
  ELSE GenerateInvoiceNumber(business_profile, year)

\* the status policy without the IRN override
CreateStatus_IgnoresIrn(invoice_in) ==
  IF invoice_in.status # NoneStr THEN invoice_in.status ELSE DRAFT

\* invoice_in.status if invoice_in.status else DRAFT; APPROVED when an IRN is given
CreateStatus(invoice_in) ==
  IF TruthyStr(invoice_in.irn) THEN APPROVED
  ELSE IF invoice_in.status # NoneStr THEN invoice_in.status ELSE DRAFT

\* a line's tax on the other divisor
TaxOn_OtherDivisor(item_subtotal, tax_rate, divisor) ==
  (item_subtotal * tax_rate) \div (300 - divisor)

(***************************************************************************)
(* Line items and aggregates, as create_invoice and update_invoice compute *)
(* them.                                                                   *)
(***************************************************************************)
\* item_subtotal * (product.tax_rate / divisor)
TaxOn(item_subtotal, tax_rate, divisor) == (item_subtotal * tax_rate) \div divisor

\* the InvoiceItem row of one input item
BuildItem(item_in, product, tax_type) ==
  LET item_subtotal == item_in.quantity * item_in.rate
      igst == TaxOn(item_subtotal, product.tax_rate, 100)
      cgst == TaxOn(item_subtotal, product.tax_rate, 200)
      sgst == TaxOn(item_subtotal, product.tax_rate, 200)
  IN IF tax_type = IGST
     THEN [product_id |-> item_in.product_id, quantity |-> item_in.quantity,
           rate |-> item_in.rate, tax_rate |-> product.tax_rate,
           tax_amount |-> igst, subtotal |-> item_subtotal,
           total |-> item_subtotal + igst,
           cgst |-> Null, sgst |-> Null, igst |-> Some(igst), tax_type |-> tax_type]
     ELSE [product_id |-> item_in.product_id, quantity |-> item_in.quantity,
           rate |-> item_in.rate, tax_rate |-> product.tax_rate,
           tax_amount |-> cgst + sgst, subtotal |-> item_subtotal,
           total |-> item_subtotal + cgst + sgst,
           cgst |-> Some(cgst), sgst |-> Some(sgst), igst |-> Null, tax_type |-> tax_type]

\* the items loop: a row per input item
BuildItems(items_in, tax_type, user) ==
  [i \in 1..Len(items_in) |->
     BuildItem(items_in[i], products[FindProduct(items_in[i].product_id, user)], tax_type)]

\* some input item names a product the user does not have
ProductMissing(items_in, user) ==
  \E i \in 1..Len(items_in) : FindProduct(items_in[i].product_id, user) = NoId

\* the input items the loop handles before it meets a missing product
BeforeMissing(items_in, user) ==
  LET k == CHOOSE i \in 1..Len(items_in) :
             /\ FindProduct(items_in[i].product_id, user) = NoId
             /\ \A j \in 1..(i - 1) : FindProduct(items_in[j].product_id, user) # NoId
  IN SubSeq(items_in, 1, k - 1)

\* the running sums of the items loop
RECURSIVE SumField(_, _)
SumField(rows, f) ==
  IF rows = <<>> THEN 0 ELSE rows[1][f] + SumField(Tail(rows), f)

RECURSIVE SumOptField(_, _)
SumOptField(rows, f) ==
  IF rows = <<>> THEN 0 ELSE OrZero(rows[1][f]) + SumOptField(Tail(rows), f)

\* invoice.total = subtotal + tax_amount
InvoiceTotal(subtotal, tax_amount) == subtotal + tax_amount

\* an items loop that overwrites its running sums instead of adding to them
CreateAggregates_LastItemOnly(rows, tax_type) ==
  LET last == IF rows = <<>> THEN <<>> ELSE <<rows[Len(rows)]>>
  IN [subtotal |-> SumField(last, "subtotal"),
      tax_amount |-> SumField(last, "tax_amount"),
      total |-> InvoiceTotal(SumField(last, "subtotal"), SumField(last, "tax_amount")),
      cgst_total |-> IF tax_type = IGST THEN Null ELSE Some(SumOptField(last, "cgst")),
      sgst_total |-> IF tax_type = IGST THEN Null ELSE Some(SumOptField(last, "sgst")),
      igst_total |-> IF tax_type = IGST THEN Some(SumOptField(last, "igst")) ELSE Null]

\* the aggregate columns written after the items loop of create_invoice:
\* only the side of the tax type is assigned, the other keeps its None
CreateAggregates(rows, tax_type) ==
  [subtotal |-> SumField(rows, "subtotal"),
   tax_amount |-> SumField(rows, "tax_amount"),
   total |-> InvoiceTotal(SumField(rows, "subtotal"), SumField(rows, "tax_amount")),
   cgst_total |-> IF tax_type = IGST THEN Null ELSE Some(SumOptField(rows, "cgst")),
   sgst_total |-> IF tax_type = IGST THEN Null ELSE Some(SumOptField(rows, "sgst")),
   igst_total |-> IF tax_type = IGST THEN Some(SumOptField(rows, "igst")) ELSE Null]

\* the aggregate columns written after the items loop of update_invoice:
\* the side the tax type does not name is set to None
UpdateAggregates(rows, tax_type) ==
  [subtotal |-> SumField(rows, "subtotal"),
   tax_amount |-> SumField(rows, "tax_amount"),
   total |-> InvoiceTotal(SumField(rows, "subtotal"), SumField(rows, "tax_amount")),
   cgst_total |-> IF tax_type = IGST THEN Null ELSE Some(SumOptField(rows, "cgst")),
   sgst_total |-> IF tax_type = IGST THEN Null ELSE Some(SumOptField(rows, "sgst")),
   igst_total |-> IF tax_type = IGST THEN Some(SumOptField(rows, "igst")) ELSE Null]

(***************************************************************************)
(* The unit of work.  A session's writes reach the tables at db.commit();  *)
(* db.rollback(), and closing the session of a request that raised, leave  *)
(* the tables as they were.                                                *)
(***************************************************************************)
Commit(before, pending) == pending
\* a rollback that keeps what the session had written
Rollback_Keeps(before, pending) == pending
Rollback(before, pending) == before

\* a session that commits when it is closed
CloseSession_Commits(before, pending) == pending
\* db.close() of get_db on a session that was flushed and not committed:
\* what it had written is gone
CloseSession(before, pending) == before

\* business_profile.current_invoice_number += 1
IncrementCounter(business_profile) ==
  [business_profile EXCEPT !.current_invoice_number = @ + 1]

\* what the caller gets: the status code and, of an HTTPException, its detail
Ok == [status_code |-> 200, detail |-> ""]
Error(code, detail) == [status_code |-> code, detail |-> detail]

\* the workers that handle requests side by side, each request with a
\* Session of its own (get_db)
Workers == 1..NumWorkers

\* no Session: the worker is between requests
Closed == [pc |-> "closed"]

\* no utility function has been called
NoCall == [fn |-> "none"]

\* the tables and the clock when the service starts
InitStore ==
  /\ business_profiles = InitialBusinessProfiles
  /\ products = InitialProducts
  /\ invoices = <<>>
  /\ invoice_items = <<>>
  /\ invoice_id_seq = 1
  /\ current_year = FirstYear
  /\ response = Error(0, "")
  /\ issued = [p \in DOMAIN InitialBusinessProfiles |-> <<>>]
  /\ sessions = [w \in Workers |-> Closed]

Init ==
  /\ InitStore
  /\ call = NoCall

\* a call of a utility function: its name, its arguments, and its outcome
\* once it has returned or raised
Pending == [kind |-> "pending"]
Returns(value) == [kind |-> "returns", value |-> value]
Raises(exception) == [kind |-> "raises", exception |-> exception]
Call(fn, args) == [fn |-> fn, args |-> args, outcome |-> Pending]

\* the store is not touched by a utility function
StoreUnchanged ==
  UNCHANGED <<tables, invoice_id_seq, current_year, response, issued, sessions>>

(***************************************************************************)
(* POST /invoices/                                                         *)
(***************************************************************************)
\* the Invoice row create_invoice adds, with the aggregates of its items
CreatedInvoice(invoice_in, business_profile, tax_type, rows, year) ==
  LET agg == CreateAggregates(rows, tax_type)
  IN [invoice_number |-> InvoiceNumberOf(invoice_in, business_profile, year),
      business_profile_id |-> invoice_in.business_profile_id,
      customer_id |-> invoice_in.customer_id,
      tax_type |-> tax_type,
      subtotal |-> agg.subtotal, tax_amount |-> agg.tax_amount, total |-> agg.total,
      cgst_total |-> agg.cgst_total, sgst_total |-> agg.sgst_total,
      igst_total |-> agg.igst_total,
      status |-> CreateStatus(invoice_in), irn |-> invoice_in.irn,
      discount_amount |-> invoice_in.discount_amount,
      round_off |-> invoice_in.round_off]

create_invoice(invoice_in) ==
  LET bp_id == FindBusinessProfile(invoice_in.business_profile_id, CurrentUser)
      customer_id == FindCustomer(invoice_in.customer_id, CurrentUser)
  IN
  IF bp_id = NoId THEN
    /\ response' = Error(404, "Business profile not found")
    /\ UNCHANGED <<tables, invoice_id_seq, current_year, issued, sessions, call>>
  ELSE IF customer_id = NoId THEN
    /\ response' = Error(404, "Customer not found")
    /\ UNCHANGED <<tables, invoice_id_seq, current_year, issued, sessions, call>>
  ELSE
    LET business_profile == business_profiles[bp_id]
        tax_type == DetermineTaxType(business_profile.state, Customers[customer_id].state)
        id == invoice_id_seq
        rows == BuildItems(invoice_in.items, tax_type, CurrentUser)
        \* the row as flushed before the items loop: its aggregates are 0
        flushed == CreatedInvoice(invoice_in, business_profile, tax_type, <<>>, current_year)
        \* the items added to the session before the loop met a missing product
        added == BuildItems(BeforeMissing(invoice_in.items, CurrentUser), tax_type, CurrentUser)
        invoice == CreatedInvoice(invoice_in, business_profile, tax_type, rows, current_year)
    IN
    \* db.flush() draws the invoice's id
    /\ invoice_id_seq <= MaxInvoiceId
    /\ invoice_id_seq' = invoice_id_seq + 1
    /\ UNCHANGED <<products, current_year, sessions, call>>
    /\ IF ProductMissing(invoice_in.items, CurrentUser) THEN
         /\ invoices' = Rollback(invoices, Put(invoices, id, flushed))
         /\ invoice_items' = Rollback(invoice_items, Put(invoice_items, id, added))
         /\ business_profiles' = Rollback(business_profiles, business_profiles)
         /\ response' = Error(404, "Product not found")
         /\ UNCHANGED issued
       ELSE
         /\ invoices' = Commit(invoices, Put(invoices, id, invoice))
         /\ invoice_items' = Commit(invoice_items, Put(invoice_items, id, rows))
         /\ business_profiles' =
              Commit(business_profiles,
                     Put(business_profiles, bp_id, IncrementCounter(business_profile)))
         /\ response' = Ok
         \* invoice_dict["invoice_number"] of the response
         /\ issued' = [issued EXCEPT ![bp_id] = Append(@, invoice.invoice_number)]

(***************************************************************************)
(* utils/invoice_utils.py: calculate_tax                                   *)
(***************************************************************************)
calculate_tax(subtotal, tax_rate, tax_type) ==
  IF tax_type = IGST
  THEN LET igst == TaxOn(subtotal, tax_rate, 100)
       IN [tax_amount |-> igst, cgst |-> 0, sgst |-> 0, igst |-> igst]
  ELSE LET cgst == TaxOn(subtotal, tax_rate, 200)
           sgst == TaxOn(subtotal, tax_rate, 200)
       IN [tax_amount |-> cgst + sgst, cgst |-> cgst, sgst |-> sgst, igst |-> 0]

calculate_tax_call ==
  /\ call.fn = "calculate_tax"
  /\ call.outcome = Pending
  /\ call' = [call EXCEPT !.outcome =
                Returns(calculate_tax(call.args[1], call.args[2], call.args[3]))]
  /\ StoreUnchanged

(***************************************************************************)
(* utils/invoice_utils.py: generate_invoice_pdf, generate_invoice_pdf_html *)
(* A rendering library is modelled by what its call does: it returns a PDF *)
(* or it raises; an import finds the library or raises ImportError.  The   *)
(* argument env says which for each tier.  Bytes are a sequence that       *)
(* starts with the characters of the header; the rest names the tier that  *)
(* wrote them.                                                             *)
(***************************************************************************)
PdfHeader == <<"%", "P", "D", "F">>
PdfBytes(tier, text) == PdfHeader \o <<"-", tier, text>>

\* b"%PDF-1.4\n1 0 obj...": the literal of the last resort
EmergencyPdf == PdfHeader \o <<"-", "1", ".", "4", "Error Generating Invoice PDF">>

\* customer.address, replaced by "" when it is missing
DisplayAddress(address) == IF TruthyStr(address) THEN address ELSE ""

\* the last resort raises what the canvas raised
UltraSimplePdf_NoLiteral(env) ==
  IF env.canvas = "ok" THEN Returns(PdfBytes("ultra", "")) ELSE Raises("Exception")

\* canvas.Canvas(...) with the error text, else the literal
UltraSimplePdf(env) ==
  IF env.canvas = "ok" THEN Returns(PdfBytes("ultra", "")) ELSE Returns(EmergencyPdf)

\* the handler of the outer try: a page naming the error, else the
\* ultra-simple page
ErrorFallbackPdf(env) ==
  IF env.error_doc = "ok" THEN Returns(PdfBytes("error", "")) ELSE UltraSimplePdf(env)

generate_invoice_pdf(env) ==
  IF env.prepare # "ok" THEN ErrorFallbackPdf(env)
  ELSE IF env.full = "ok"
    THEN Returns(PdfBytes("full", DisplayAddress(env.customer_address)))
  ELSE IF env.simplified = "ok"
    THEN Returns(PdfBytes("simplified", DisplayAddress(env.customer_address)))
  ELSE UltraSimplePdf(env)

generate_invoice_pdf_html(env) ==
  IF env.render # "ok" THEN generate_invoice_pdf(env)
  ELSE IF env.weasyprint = "ok"
    THEN Returns(PdfBytes("weasyprint", env.customer_address))
  ELSE IF env.weasyprint = "raises" THEN generate_invoice_pdf(env)
  \* ImportError: xhtml2pdf
  ELSE IF env.xhtml2pdf = "ok"
    THEN Returns(PdfBytes("xhtml2pdf", env.customer_address))
  ELSE generate_invoice_pdf(env)

\* the strategies generate_invoice_pdf attempts, in the order it attempts
\* them: the full render is the preparation of the elements and doc.build;
\* what the preparation raises is caught by the outer handler, what doc.build
\* raises by the handler around it
PdfAttempts(env) ==
  IF env.prepare # "ok"
  THEN <<"full", "error page">>
         \o (IF env.error_doc = "ok" THEN <<>>
             ELSE <<"ultra">> \o (IF env.canvas = "ok" THEN <<>> ELSE <<"literal">>))
  ELSE <<"full">>
         \o (IF env.full = "ok" THEN <<>>
             ELSE <<"simplified">>
                    \o (IF env.simplified = "ok" THEN <<>>
                        ELSE <<"ultra">>
                               \o (IF env.canvas = "ok" THEN <<>> ELSE <<"literal">>)))

\* the HTML engine first; generate_invoice_pdf when it raised or is missing
HtmlAttempts(env) ==
  IF /\ env.render = "ok"
     /\ \/ env.weasyprint = "ok"
        \/ env.weasyprint = "ImportError" /\ env.xhtml2pdf = "ok"
  THEN <<"html">>
  ELSE <<"html">> \o PdfAttempts(env)

\* the records after the first statements of generate_invoice_pdf: a
\* business name and a customer address that are missing or empty are
\* assigned to, on the objects the caller passed
WithDefaults(env) ==
  [env EXCEPT !.business_name = IF TruthyStr(@) THEN @ ELSE "Business Name",
              !.customer_address = DisplayAddress(@)]

\* generate_invoice_pdf_html touches the records only through
\* generate_invoice_pdf
HtmlRecords(env) ==
  IF HtmlAttempts(env) = <<"html">> THEN env ELSE WithDefaults(env)

\* a call leaves, beside its outcome, the strategies it attempted and the
\* records as they are when it returns
generate_invoice_pdf_call ==
  /\ call.fn = "generate_invoice_pdf"
  /\ call.outcome = Pending
  /\ call' = [fn |-> call.fn, args |-> call.args,
              outcome |-> generate_invoice_pdf(call.args),
              attempts |-> PdfAttempts(call.args),
              records |-> WithDefaults(call.args)]
  /\ StoreUnchanged

generate_invoice_pdf_html_call ==
  /\ call.fn = "generate_invoice_pdf_html"
  /\ call.outcome = Pending
  /\ call' = [fn |-> call.fn, args |-> call.args,
              outcome |-> generate_invoice_pdf_html(call.args),
              attempts |-> HtmlAttempts(call.args),
              records |-> HtmlRecords(call.args)]
  /\ StoreUnchanged

(***************************************************************************)
(* POST /invoices/ as its Session runs it beside other requests.  The      *)
(* tables hold what is committed (READ COMMITTED); a Session holds the     *)
(* objects it has loaded and its pending writes.  The Session does not     *)
(* autoflush, and nothing expires the loaded business profile before the   *)
(* commit: the counter the handler formats into the number and the counter *)
(* it increments are both the one it loaded.                               *)
(***************************************************************************)
\* the queries for the business profile and the customer
load_business_profile(w, invoice_in) ==
  LET bp_id == FindBusinessProfile(invoice_in.business_profile_id, CurrentUser)
      customer_id == FindCustomer(invoice_in.customer_id, CurrentUser)
  IN
  /\ sessions[w] = Closed
  /\ UNCHANGED <<tables, invoice_id_seq, current_year, issued, call>>
  /\ IF bp_id = NoId THEN
       /\ response' = Error(404, "Business profile not found")
       /\ UNCHANGED sessions
     ELSE IF customer_id = NoId THEN
       /\ response' = Error(404, "Customer not found")
       /\ UNCHANGED sessions
     ELSE
       /\ sessions' = [sessions EXCEPT ![w] =
            [pc |-> "loaded", invoice_in |-> invoice_in,
             business_profile |-> business_profiles[bp_id]]]
       /\ UNCHANGED response

\* the invoice number is formatted from the loaded counter; db.add(invoice)
\* and db.flush() draw the invoice's id
flush_invoice(w) ==
  /\ sessions[w].pc = "loaded"
  /\ invoice_id_seq <= MaxInvoiceId
  /\ invoice_id_seq' = invoice_id_seq + 1
  /\ sessions' = [sessions EXCEPT ![w] =
       [pc |-> "flushed", invoice_in |-> sessions[w].invoice_in,
        business_profile |-> sessions[w].business_profile,
        id |-> invoice_id_seq,
        invoice_number |-> InvoiceNumberOf(sessions[w].invoice_in,
                                           sessions[w].business_profile, current_year)]]
  /\ UNCHANGED <<tables, current_year, response, issued, call>>

\* the items loop, the aggregates, the increment of the loaded counter and
\* db.commit(), which writes the invoice, its items and the business profile
commit_invoice(w) ==
  LET session == sessions[w]
      invoice_in == session.invoice_in
      bp_id == invoice_in.business_profile_id
      tax_type == DetermineTaxType(session.business_profile.state,
                                   Customers[invoice_in.customer_id].state)
      rows == BuildItems(invoice_in.items, tax_type, CurrentUser)
      invoice == [CreatedInvoice(invoice_in, session.business_profile, tax_type, rows,
                                 current_year)
                    EXCEPT !.invoice_number = session.invoice_number]
  IN
  /\ session.pc = "flushed"
  /\ sessions' = [sessions EXCEPT ![w] = Closed]
  /\ UNCHANGED <<products, invoice_id_seq, current_year, call>>
  /\ IF ProductMissing(invoice_in.items, CurrentUser) THEN
       /\ response' = Error(404, "Product not found")
       /\ UNCHANGED <<business_profiles, invoices, invoice_items, issued>>
     ELSE
       /\ invoices' = Commit(invoices, Put(invoices, session.id, invoice))
       /\ invoice_items' = Commit(invoice_items, Put(invoice_items, session.id, rows))
       /\ business_profiles' =
            Commit(business_profiles,
                   Put(business_profiles, bp_id, IncrementCounter(session.business_profile)))
       /\ response' = Ok
       /\ issued' = [issued EXCEPT ![bp_id] = Append(@, invoice.invoice_number)]

\* the clock passes into the next year
NewYear ==
  /\ current_year < LastYear
  /\ current_year' = current_year + 1
  /\ UNCHANGED <<tables, invoice_id_seq, response, issued, sessions, call>>

(***************************************************************************)
(* PUT /invoices/{invoice_id}                                              *)
(***************************************************************************)
\* the fields of InvoiceUpdate modelled here, in the order of the schema
UpdateFields ==
  <<"business_profile_id", "customer_id", "discount_amount", "round_off", "status", "irn">>

\* getattr(invoice_in, field) is None
IsNone(field, value) ==
  CASE field \in {"business_profile_id", "customer_id"} -> value = NoId
    [] field \in {"discount_amount", "round_off"} -> value = Null
    [] OTHER -> value = NoneStr

\* for field in invoice_in.__dict__: setattr(invoice, field, ...) when not None
RECURSIVE SetFields(_, _, _)
SetFields(invoice, invoice_in, fields) ==
  IF fields = <<>> THEN invoice
  ELSE LET f == fields[1]
           next == IF IsNone(f, invoice_in[f]) THEN invoice
                   ELSE [invoice EXCEPT ![f] = invoice_in[f]]
       IN SetFields(next, invoice_in, Tail(fields))

\* the row update_invoice commits: the fields of the request, the tax type,
\* the aggregates of the rebuilt items
UpdatedInvoice(invoice, invoice_in, tax_type, rows) ==
  LET set == SetFields(invoice, invoice_in, UpdateFields)
      agg == UpdateAggregates(rows, tax_type)
  IN [set EXCEPT !.tax_type = tax_type,
                 !.subtotal = agg.subtotal, !.tax_amount = agg.tax_amount,
                 !.total = agg.total, !.cgst_total = agg.cgst_total,
                 !.sgst_total = agg.sgst_total, !.igst_total = agg.igst_total]

\* a purge that spares the items of an invoice when the request brings none
ReplaceItems_KeepsWhenEmpty(existing, rows) == IF rows = <<>> THEN existing ELSE rows

\* db.query(InvoiceItem).filter(invoice_id == invoice.id).delete(), then
\* db.add(item) for each item of the request
ReplaceItems(existing, rows) == rows

\* the foreign keys of the invoices table hold for the row
ForeignKeysHold(invoice) ==
  /\ invoice.business_profile_id \in DOMAIN business_profiles
  /\ invoice.customer_id \in DOMAIN Customers

update_invoice(invoice_id, invoice_in) ==
  IF FindInvoice(invoice_id, CurrentUser) = NoId THEN
    /\ response' = Error(404, "Invoice not found")
    /\ UNCHANGED <<tables, invoice_id_seq, current_year, issued, sessions, call>>
  ELSE
  LET invoice == invoices[invoice_id]
      \* the profile and customer of the request when it names one, else the invoice's
      bp_id == IF Truthy(invoice_in.business_profile_id)
               THEN FindBusinessProfile(invoice_in.business_profile_id, CurrentUser)
               ELSE invoice.business_profile_id
      customer_id == IF Truthy(invoice_in.customer_id)
                     THEN FindCustomer(invoice_in.customer_id, CurrentUser)
                     ELSE invoice.customer_id
  IN
  IF bp_id = NoId THEN
    /\ response' = Error(404, "Business profile not found")
    /\ UNCHANGED <<tables, invoice_id_seq, current_year, issued, sessions, call>>
  ELSE IF customer_id = NoId THEN
    /\ response' = Error(404, "Customer not found")
    /\ UNCHANGED <<tables, invoice_id_seq, current_year, issued, sessions, call>>
  ELSE
    LET tax_type == DetermineTaxType(business_profiles[bp_id].state,
                                     Customers[customer_id].state)
        rows == BuildItems(invoice_in.items, tax_type, CurrentUser)
        updated == UpdatedInvoice(invoice, invoice_in, tax_type, rows)
        \* the session when the loop meets a missing product: the fields set,
        \* the old items deleted, the items before the missing one added
        dirty == [SetFields(invoice, invoice_in, UpdateFields) EXCEPT !.tax_type = tax_type]
        added == BuildItems(BeforeMissing(invoice_in.items, CurrentUser), tax_type, CurrentUser)
    IN
    /\ UNCHANGED <<business_profiles, products, invoice_id_seq, current_year, issued,
                   sessions, call>>
    /\ IF ProductMissing(invoice_in.items, CurrentUser) THEN
         /\ invoices' = Rollback(invoices, Put(invoices, invoice_id, dirty))
         /\ invoice_items' =
              Rollback(invoice_items,
                       Put(invoice_items, invoice_id,
                           ReplaceItems(invoice_items[invoice_id], added)))
         /\ response' = Error(404, "Product not found")
       ELSE IF ~ForeignKeysHold(updated) THEN
         \* db.commit() raises IntegrityError; the session is closed without a commit
         /\ invoices' = Rollback(invoices, Put(invoices, invoice_id, updated))
         /\ invoice_items' =
              Rollback(invoice_items,
                       Put(invoice_items, invoice_id,
                           ReplaceItems(invoice_items[invoice_id], rows)))
         /\ response' = Error(500, "Internal Server Error")
       ELSE
         /\ invoices' = Commit(invoices, Put(invoices, invoice_id, updated))
         /\ invoice_items' =
              Commit(invoice_items,
                     Put(invoice_items, invoice_id,
                         ReplaceItems(invoice_items[invoice_id], rows)))
         /\ response' = Ok

(***************************************************************************)
(* DELETE /invoices/{invoice_id}: the invoice and, by the cascade of       *)
(* Invoice.items, its items.                                               *)
(***************************************************************************)
delete_invoice(invoice_id) ==
  IF FindInvoice(invoice_id, CurrentUser) = NoId THEN
    /\ response' = Error(404, "Invoice not found")
    /\ UNCHANGED <<tables, invoice_id_seq, current_year, issued, sessions, call>>
  ELSE
    /\ invoices' = Commit(invoices, Drop(invoices, invoice_id))
    /\ invoice_items' = Commit(invoice_items, Drop(invoice_items, invoice_id))
    /\ response' = Ok
    /\ UNCHANGED <<business_profiles, products, invoice_id_seq, current_year, issued,
                   sessions, call>>

(***************************************************************************)
(* POST /exports/invoice/import-json: nic_json_to_invoice under the        *)
(* endpoint's try/except, which turns every exception into a 400.  A JSON  *)
(* object is a record; a key it lacks is a field the record lacks.         *)
(***************************************************************************)
Min(S) == CHOOSE x \in S : \A y \in S : x <= y
Max(S) == CHOOSE x \in S : \A y \in S : y <= x

\* .filter(gstin == ..., user_id == ...).first()
FindBusinessProfileByGstin(gstin, user) ==
  LET hits == {i \in DOMAIN business_profiles :
                 business_profiles[i].gstin = gstin /\ business_profiles[i].user_id = user}
  IN IF hits = {} THEN NoId ELSE Min(hits)

FindCustomerByGstin(gstin, user) ==
  LET hits == {i \in DOMAIN Customers :
                 Customers[i].gstin = gstin /\ Customers[i].user_id = user}
  IN IF hits = {} THEN NoId ELSE Min(hits)

\* .filter(hsn_sac == ..., name == ..., user_id == ...).first() on a products table
FindProductByHsnName(prods, hsn_sac, name, user) ==
  LET hits == {i \in DOMAIN prods :
                 prods[i].hsn_sac = hsn_sac /\ prods[i].name = name /\ prods[i].user_id = user}
  IN IF hits = {} THEN NoId ELSE Min(hits)

\* datetime.strptime(s, "%d/%m/%Y") succeeds
ParsesAsDate(s) == s \in {"15/01/2025", "01/04/2026"}

\* nic_json["BuyerDtls"].get("Gstin")
BuyerGstin(nic_json) ==
  IF "Gstin" \in DOMAIN nic_json.BuyerDtls THEN nic_json.BuyerDtls.Gstin ELSE NoneStr

\* nic_item.get(key, 0)
GetOrZero(nic_item, key) == IF key \in DOMAIN nic_item THEN nic_item[key] ELSE 0

\* the keys of an ItemList entry read with nic_item[...]
ItemKeys == {"HsnCd", "PrdDesc", "GstRt", "Unit", "Qty", "UnitPrice", "AssAmt", "TotItemVal"}

\* the InvoiceItem row of one ItemList entry: the amounts are the document's
ImportedItem(nic_item, product_id, tax_type) ==
  [product_id |-> product_id, quantity |-> nic_item.Qty, rate |-> nic_item.UnitPrice,
   tax_rate |-> nic_item.GstRt,
   tax_amount |-> GetOrZero(nic_item, "IgstAmt") + GetOrZero(nic_item, "CgstAmt")
                    + GetOrZero(nic_item, "SgstAmt"),
   subtotal |-> nic_item.AssAmt, total |-> nic_item.TotItemVal,
   cgst |-> OrNone(GetOrZero(nic_item, "CgstAmt")),
   sgst |-> OrNone(GetOrZero(nic_item, "SgstAmt")),
   igst |-> OrNone(GetOrZero(nic_item, "IgstAmt")),
   tax_type |-> tax_type]

\* the items loop of the import over the entries that have their keys: each
\* entry's product is looked up by HSN and name and created when absent
RECURSIVE ImportItems(_, _, _, _, _)
ImportItems(item_list, prods, rows, tax_type, user) ==
  IF item_list = <<>> \/ ~(ItemKeys \subseteq DOMAIN item_list[1])
  THEN [products |-> prods, rows |-> rows, failed |-> item_list # <<>>]
  ELSE LET nic_item == item_list[1]
           found == FindProductByHsnName(prods, nic_item.HsnCd, nic_item.PrdDesc, user)
           product_id == IF found # NoId THEN found ELSE Max(DOMAIN prods) + 1
           prods2 == IF found # NoId THEN prods
                     ELSE Put(prods, product_id,
                              [user_id |-> user, name |-> nic_item.PrdDesc,
                               hsn_sac |-> nic_item.HsnCd, tax_rate |-> nic_item.GstRt,
                               unit |-> nic_item.Unit])
       IN ImportItems(Tail(item_list), prods2,
                      Append(rows, ImportedItem(nic_item, product_id, tax_type)),
                      tax_type, user)

\* TaxType.IGST if nic_json["ValDtls"]["IgstVal"] > 0 else CGST_SGST
ImportTaxType(val_dtls) == IF val_dtls.IgstVal > 0 THEN IGST ELSE CGST_SGST

\* the Invoice row of the import: number and amounts are the document's, the
\* columns the constructor is not given take their defaults
ImportedInvoice(nic_json, bp_id, customer_id) ==
  [invoice_number |-> nic_json.DocDtls.No,
   business_profile_id |-> bp_id,
   customer_id |-> customer_id,
   tax_type |-> ImportTaxType(nic_json.ValDtls),
   subtotal |-> nic_json.ValDtls.AssVal,
   tax_amount |-> nic_json.ValDtls.CgstVal + nic_json.ValDtls.SgstVal
                    + nic_json.ValDtls.IgstVal,
   total |-> nic_json.ValDtls.TotInvVal,
   cgst_total |-> OrNone(nic_json.ValDtls.CgstVal),
   sgst_total |-> OrNone(nic_json.ValDtls.SgstVal),
   igst_total |-> OrNone(nic_json.ValDtls.IgstVal),
   status |-> DRAFT, irn |-> NoneStr,
   discount_amount |-> Some(0), round_off |-> Some(0)]

\* the import raises before it flushes the invoice: a key of the header is
\* missing, the date does not parse, the seller is no business profile of the
\* user (BusinessProfile() is given pan, which is no column: TypeError), the
\* buyer is no customer of the user (the new Customer has no city: the flush
\* violates NOT NULL), or ValDtls is missing
ImportFailsEarly(nic_json, user) ==
  \/ ~({"DocDtls", "SellerDtls", "BuyerDtls", "ValDtls"} \subseteq DOMAIN nic_json)
  \/ ~ParsesAsDate(nic_json.DocDtls.Dt)
  \/ FindBusinessProfileByGstin(nic_json.SellerDtls.Gstin, user) = NoId
  \/ ~TruthyStr(BuyerGstin(nic_json))
  \/ FindCustomerByGstin(BuyerGstin(nic_json), user) = NoId

import_invoice_from_nic_json(nic_json) ==
  IF ImportFailsEarly(nic_json, CurrentUser) THEN
    /\ response' = Error(400, "Error importing JSON")
    /\ UNCHANGED <<tables, invoice_id_seq, current_year, issued, sessions, call>>
  ELSE
    LET bp_id == FindBusinessProfileByGstin(nic_json.SellerDtls.Gstin, CurrentUser)
        customer_id == FindCustomerByGstin(BuyerGstin(nic_json), CurrentUser)
        id == invoice_id_seq
        invoice == ImportedInvoice(nic_json, bp_id, customer_id)
        item_list == IF "ItemList" \in DOMAIN nic_json THEN nic_json.ItemList ELSE <<>>
        loop == ImportItems(item_list, products, <<>>, invoice.tax_type, CurrentUser)
        failed == "ItemList" \notin DOMAIN nic_json \/ loop.failed
    IN
    \* db.flush() draws the invoice's id
    /\ invoice_id_seq <= MaxInvoiceId
    /\ invoice_id_seq' = invoice_id_seq + 1
    /\ UNCHANGED <<business_profiles, current_year, issued, sessions, call>>
    /\ IF failed THEN
         \* KeyError in the items loop; the session is closed without a commit
         /\ invoices' = CloseSession(invoices, Put(invoices, id, invoice))
         /\ invoice_items' = CloseSession(invoice_items, Put(invoice_items, id, loop.rows))
         /\ products' = CloseSession(products, loop.products)
         /\ response' = Error(400, "Error importing JSON")
       ELSE
         /\ invoices' = Commit(invoices, Put(invoices, id, invoice))
         /\ invoice_items' = Commit(invoice_items, Put(invoice_items, id, loop.rows))
         /\ products' = Commit(products, loop.products)
         /\ response' = Ok

(***************************************************************************)
(* utils/nic_json_utils.py: invoice_to_nic_json, and utils/invoice_utils.py *)
(* generate_gst_irp_json, with the endpoints that call them.  An exporter  *)
(* is given the ORM objects of one invoice: the invoice, its business      *)
(* profile, its customer, and its (item, product) pairs.                   *)
(***************************************************************************)
\* round(x, 2) of an amount: to a whole paisa, a half to the even paisa
Round2(x) ==
  LET paise == x \div 10
      rest == x % 10
  IN IF rest < 5 \/ (rest = 5 /\ paise % 2 = 0) THEN paise * 10 ELSE (paise + 1) * 10

\* invoice_date is NOT NULL; the invoices of the model all carry this date
InvoiceDate == [year |-> 2025, month |-> 1, day |-> 15]

\* invoice_date.strftime("%d/%m/%Y")
Strftime(date) ==
  CASE date = [year |-> 2025, month |-> 1, day |-> 15] -> "15/01/2025"
    [] date = [year |-> 2026, month |-> 4, day |-> 1] -> "01/04/2026"

\* the Invoice object of a row: the columns the tables of the model leave
\* out, with the values their defaults give them
OrmInvoice(row) ==
  row @@ [invoice_date |-> InvoiceDate, document_type |-> "INVOICE", supply_type |-> "B2B"]

\* a mapping that knows no supply type
SupplyTypeCode_AlwaysB2B(invoice) == "B2B"

\* supply_type_mapping.get(str(invoice.supply_type).split('.')[-1], 'B2B'): a
\* member of an enum is written by its name, as str() gives it after the dot
SupplyTypeCode(invoice) ==
  IF "supply_type" \notin DOMAIN invoice THEN "B2B"
  ELSE CASE invoice.supply_type = "B2C" -> "B2C"
         [] invoice.supply_type = "EXPORT_WITH_TAX" -> "EXPWP"
         [] invoice.supply_type = "EXPORT_WITHOUT_TAX" -> "EXPWOP"
         [] invoice.supply_type = "SEZ_WITH_TAX" -> "SEZWP"
         [] invoice.supply_type = "SEZ_WITHOUT_TAX" -> "SEZWOP"
         [] invoice.supply_type = "DEEMED_EXPORT" -> "DEXP"
         [] invoice.supply_type = "COMPOSITE" -> "COMP"
         [] OTHER -> "B2B"

get_customer_gstin(customer, supply_type) ==
  IF supply_type \in {"EXPWP", "EXPWOP"} THEN ""
  ELSE IF ~TruthyStr(customer.gstin) /\ supply_type = "B2B" THEN "URP"
  ELSE IF TruthyStr(customer.gstin) THEN customer.gstin ELSE ""

\* hsn_sac.startswith("99"), on the codes of the model
StartsWith99(hsn_sac) == hsn_sac \in {"998314", "998311"}

\* what building the ItemList entry of one pair raises, "None" when nothing:
\* None has no startswith, and float(None) is a TypeError
NicItemError(item, product, tax_type) ==
  IF product.hsn_sac = NoneStr THEN "AttributeError"
  ELSE IF tax_type = IGST /\ item.igst = Null THEN "TypeError"
  ELSE IF tax_type # IGST /\ (item.cgst = Null \/ item.sgst = Null) THEN "TypeError"
  ELSE NoneStr

\* the ItemList entry of the i-th pair; quantities are whole numbers and
\* rates whole percents, which round(.., 3) and round(.., 2) leave as they are
ExportedItem(i, item, product, tax_type) ==
  [SlNo |-> Str(i), PrdDesc |-> product.name,
   IsServc |-> IF StartsWith99(product.hsn_sac) THEN "Y" ELSE "N",
   HsnCd |-> product.hsn_sac, Qty |-> item.quantity, Unit |-> product.unit,
   UnitPrice |-> Round2(item.rate), TotAmt |-> Round2(item.subtotal), Discount |-> 0,
   AssAmt |-> Round2(item.subtotal), GstRt |-> product.tax_rate,
   TotItemVal |-> Round2(item.total),
   IgstAmt |-> IF tax_type = IGST THEN Round2(item.igst[1]) ELSE 0,
   CgstAmt |-> IF tax_type = IGST THEN 0 ELSE Round2(item.cgst[1]),
   SgstAmt |-> IF tax_type = IGST THEN 0 ELSE Round2(item.sgst[1])]

\* the pairs whose entry cannot be built
FailingPairs(invoice, items) ==
  {k \in 1..Len(items) : NicItemError(items[k][1], items[k][2], invoice.tax_type) # NoneStr}

invoice_to_nic_json(invoice, business_profile, customer, items) ==
  IF invoice.round_off = Null THEN Raises("TypeError")
  ELSE IF FailingPairs(invoice, items) # {}
  THEN LET k == Min(FailingPairs(invoice, items))
       IN Raises(NicItemError(items[k][1], items[k][2], invoice.tax_type))
  ELSE Returns(
    [Version |-> "1.1",
     TranDtls |-> [TaxSch |-> "GST", SupTyp |-> SupplyTypeCode(invoice)],
     DocDtls |-> [Typ |-> "INV", No |-> invoice.invoice_number,
                  Dt |-> Strftime(invoice.invoice_date)],
     SellerDtls |-> [Gstin |-> business_profile.gstin, LglNm |-> business_profile.name,
                     Loc |-> business_profile.state],
     BuyerDtls |-> [Gstin |-> get_customer_gstin(customer, SupplyTypeCode(invoice)),
                    Loc |-> customer.state],
     ItemList |-> [k \in 1..Len(items) |->
                     ExportedItem(k, items[k][1], items[k][2], invoice.tax_type)],
     ValDtls |-> [AssVal |-> Round2(invoice.subtotal),
                  CgstVal |-> Round2(OrZero(invoice.cgst_total)),
                  SgstVal |-> Round2(OrZero(invoice.sgst_total)),
                  IgstVal |-> Round2(OrZero(invoice.igst_total)),
                  TotInvVal |-> Round2(invoice.total),
                  RndOffAmt |-> Round2(invoice.round_off[1])]])

\* the (InvoiceItem, Product) pairs of an invoice
ItemsWithProducts(invoice_id) ==
  [k \in 1..Len(invoice_items[invoice_id]) |->
     <<invoice_items[invoice_id][k], products[invoice_items[invoice_id][k].product_id]>>]

\* what the queries of an export endpoint find for a stored invoice: the
\* invoice, its business profile, its customer, its pairs
ExportArgs(invoice_id) ==
  <<OrmInvoice(invoices[invoice_id]),
    business_profiles[invoices[invoice_id].business_profile_id],
    Customers[invoices[invoice_id].customer_id],
    ItemsWithProducts(invoice_id)>>

\* the outcome of invoice_to_nic_json on a stored invoice
ExportedNicJson(invoice_id) ==
  LET found == ExportArgs(invoice_id)
  IN invoice_to_nic_json(found[1], found[2], found[3], found[4])

\* GET /exports/invoice/{invoice_id}/json: what the exporter raises is not
\* caught, the request ends in a 500
export_invoice_to_nic_json(invoice_id) ==
  /\ UNCHANGED <<tables, invoice_id_seq, current_year, issued, sessions>>
  /\ IF FindInvoice(invoice_id, CurrentUser) = NoId THEN
       /\ response' = Error(404, "Invoice not found")
       /\ UNCHANGED call
     ELSE
       LET outcome == ExportedNicJson(invoice_id)
       IN /\ call' = [fn |-> "invoice_to_nic_json", args |-> <<invoice_id>>,
                      outcome |-> outcome]
          /\ response' = IF outcome.kind = "returns" THEN Ok
                         ELSE Error(500, "Internal Server Error")

\* the item entry of the IRP document: a missing name or code is replaced
IrpItem(i, item, product) ==
  [SlNo |-> Str(i),
   PrdDesc |-> IF TruthyStr(product.name) THEN product.name ELSE "Product",
   HsnCd |-> IF TruthyStr(product.hsn_sac) THEN product.hsn_sac ELSE "",
   Qty |-> item.quantity, Unit |-> product.unit, UnitPrice |-> item.rate,
   TotAmt |-> item.subtotal, Discount |-> 0, AssAmt |-> item.subtotal,
   GstRt |-> item.tax_rate, IgstAmt |-> item.igst[1], CgstAmt |-> item.cgst[1],
   SgstAmt |-> item.sgst[1], TotItemVal |-> item.total]

\* the whole body is in a try: DocumentType and SupplyType are names the
\* module never imports, and float(None) is a TypeError; every exception
\* becomes {"error": str(e)}
generate_gst_irp_json(invoice, business_profile, customer, items) ==
  IF "document_type" \in DOMAIN invoice
  THEN Returns([error |-> "name 'DocumentType' is not defined"])
  ELSE IF "supply_type" \in DOMAIN invoice
  THEN Returns([error |-> "name 'SupplyType' is not defined"])
  ELSE IF \E k \in 1..Len(items) :
            items[k][1].cgst = Null \/ items[k][1].sgst = Null \/ items[k][1].igst = Null
  THEN Returns([error |-> "float() argument must be a string or a number"])
  ELSE Returns(
    [Version |-> "1.1",
     TranDtls |-> [TaxSch |-> "GST", SupTyp |-> "B2B"],
     DocDtls |-> [Typ |-> "INV", No |-> invoice.invoice_number,
                  Dt |-> IF "invoice_date" \in DOMAIN invoice
                         THEN Strftime(invoice.invoice_date) ELSE ""],
     SellerDtls |-> [Gstin |-> business_profile.gstin, LglNm |-> business_profile.name,
                     Loc |-> business_profile.state],
     BuyerDtls |-> [Gstin |-> IF TruthyStr(customer.gstin) THEN customer.gstin ELSE "URP",
                    Loc |-> customer.state],
     ItemList |-> [k \in 1..Len(items) |-> IrpItem(k, items[k][1], items[k][2])],
     ValDtls |-> [AssVal |-> invoice.subtotal,
                  CgstVal |-> OrZero(invoice.cgst_total),
                  SgstVal |-> OrZero(invoice.sgst_total),
                  IgstVal |-> OrZero(invoice.igst_total),
                  Discount |-> OrZero(invoice.discount_amount),
                  RndOffAmt |-> OrZero(invoice.round_off),
                  TotInvVal |-> invoice.total]])

\* GET /invoices/{invoice_id}/gst-json: an error payload becomes a 500
get_invoice_gst_json(invoice_id) ==
  /\ UNCHANGED <<tables, invoice_id_seq, current_year, issued, sessions>>
  /\ IF FindInvoice(invoice_id, CurrentUser) = NoId THEN
       /\ response' = Error(404, "Invoice not found")
       /\ UNCHANGED call
     ELSE
       LET found == ExportArgs(invoice_id)
           outcome == generate_gst_irp_json(found[1], found[2], found[3], found[4])
       IN /\ call' = [fn |-> "generate_gst_irp_json", args |-> <<invoice_id>>,
                      outcome |-> outcome]
          /\ response' = IF "error" \in DOMAIN outcome.value
                         THEN Error(500, "Failed to generate GST JSON")
                         ELSE Ok

(***************************************************************************)
(* utils/invoice_utils.py: num_to_words.  The amount has at most two       *)
(* decimal digits and is counted in paise, so that a crore of rupees is a  *)
(* number TLC can hold; the words are strings, put together with \o as the *)
(* code puts them together with +.                                         *)
(***************************************************************************)
\* units and tens, indexed from 0 as the lists are
Units ==
  [n \in 0..19 |->
     IF n = 0 THEN ""
     ELSE <<"One", "Two", "Three", "Four", "Five", "Six", "Seven", "Eight", "Nine", "Ten",
            "Eleven", "Twelve", "Thirteen", "Fourteen", "Fifteen", "Sixteen", "Seventeen",
            "Eighteen", "Nineteen">>[n]]
Tens ==
  [n \in 0..9 |->
     IF n < 2 THEN ""
     ELSE <<"Twenty", "Thirty", "Forty", "Fifty", "Sixty", "Seventy", "Eighty",
            "Ninety">>[n - 1]]

\* head + ' Scale' + ('' if the remainder is 0 else joint + words of the remainder)
ScaleWords(head, scale, rest, joint) ==
  head \o " " \o scale \o (IF rest = "" THEN "" ELSE joint \o rest)

\* _get_words
RECURSIVE get_words(_)
get_words(n) ==
  IF n < 20 THEN Units[n]
  ELSE IF n < 100
  THEN Tens[n \div 10] \o (IF n % 10 = 0 THEN "" ELSE " " \o Units[n % 10])
  ELSE IF n < 1000
  THEN ScaleWords(Units[n \div 100], "Hundred", get_words(n % 100), " and ")
  ELSE IF n < 100000
  THEN ScaleWords(get_words(n \div 1000), "Thousand", get_words(n % 1000), " ")
  ELSE IF n < 10000000
  THEN ScaleWords(get_words(n \div 100000), "Lakh", get_words(n % 100000), " ")
  ELSE ScaleWords(get_words(n \div 10000000), "Crore", get_words(n % 10000000), " ")

num_to_words(num) ==
  LET \* int(num) and int(round((num - int_part) * 100)), of an amount in paise
      int_part == num \div 100
      decimal_part == num % 100
  IN IF num = 0 THEN "Zero"
     ELSE get_words(int_part)
            \o (IF decimal_part > 0
                THEN " and " \o get_words(decimal_part) \o " Paise" ELSE "")

num_to_words_call ==
  /\ call.fn = "num_to_words"
  /\ call.outcome = Pending
  /\ call' = [call EXCEPT !.outcome = Returns(num_to_words(call.args[1]))]
  /\ StoreUnchanged

\* the exporters called on records given to them, outside a request; they
\* read the records and assign to none
invoice_to_nic_json_call ==
  /\ call.fn = "invoice_to_nic_json"
  /\ call.outcome = Pending
  /\ call' = [fn |-> call.fn, args |-> call.args,
              outcome |-> invoice_to_nic_json(call.args[1], call.args[2], call.args[3],
                                              call.args[4]),
              records |-> call.args]
  /\ StoreUnchanged

generate_gst_irp_json_call ==
  /\ call.fn = "generate_gst_irp_json"
  /\ call.outcome = Pending
  /\ call' = [fn |-> call.fn, args |-> call.args,
              outcome |-> generate_gst_irp_json(call.args[1], call.args[2], call.args[3],
                                                call.args[4]),
              records |-> call.args]
  /\ StoreUnchanged

(***************************************************************************)
(* utils/validation_utils.py: validate_gstin and validate_hsn_sac, and the *)
(* pydantic models that call them, schemas/customer.py: CustomerBase and   *)
(* schemas/product.py: ProductBase.  The strings are sequences of          *)
(* characters; <<>> stands for the empty string and for None, which the    *)
(* validators treat alike.  A model validates its fields in the order of   *)
(* their declaration, and a field validator is given, as `values`, the     *)
(* fields validated before its own.                                        *)
(***************************************************************************)
Digits == {"0", "1", "2", "3", "4", "5", "6", "7", "8", "9"}
UpperLetters ==
  {"A", "B", "C", "D", "E", "F", "G", "H", "I", "J", "K", "L", "M",
   "N", "O", "P", "Q", "R", "S", "T", "U", "V", "W", "X", "Y", "Z"}

\* str.strip()
RECURSIVE LStrip(_)
LStrip(s) == IF s # <<>> /\ s[1] = " " THEN LStrip(Tail(s)) ELSE s
RECURSIVE RStrip(_)
RStrip(s) == IF s # <<>> /\ s[Len(s)] = " " THEN RStrip(SubSeq(s, 1, Len(s) - 1)) ELSE s
Strip(s) == LStrip(RStrip(s))

URP == <<"U", "R", "P">>

\* the result of a validator of validation_utils: (is_valid, error_message)
Valid == [is_valid |-> TRUE, error_message |-> NoneStr]
Invalid(error_message) == [is_valid |-> FALSE, error_message |-> error_message]

\* re.match(r'^[0-9]{2}[A-Z]{5}[0-9]{4}[A-Z]{1}[0-9A-Z]{1}[Z]{1}[0-9A-Z]{1}$', gstin)
\* on a string of 15 characters
MatchesGstinPattern(gstin) ==
  /\ \A i \in 1..2 : gstin[i] \in Digits
  /\ \A i \in 3..7 : gstin[i] \in UpperLetters
  /\ \A i \in 8..11 : gstin[i] \in Digits
  /\ gstin[12] \in UpperLetters
  /\ gstin[13] \in Digits \cup UpperLetters
  /\ gstin[14] = "Z"
  /\ gstin[15] \in Digits \cup UpperLetters

validate_gstin(gstin, country) ==
  IF gstin = <<>> THEN Invalid("GSTIN is required")
  ELSE LET stripped == Upper(Strip(gstin))
       IN IF stripped = URP
          THEN IF country = "India"
               THEN Invalid("URP GSTIN is only valid for foreign customers")
               ELSE Valid
          ELSE IF Len(stripped) # 15 THEN Invalid("GSTIN must be exactly 15 characters")
          ELSE IF ~MatchesGstinPattern(stripped) THEN Invalid("GSTIN format is invalid")
          ELSE IF ~(1 <= IntOf(SubSeq(stripped, 1, 2)) /\ IntOf(SubSeq(stripped, 1, 2)) <= 38)
          THEN Invalid("Invalid state code in GSTIN")
          ELSE Valid

validate_gstin_call ==
  /\ call.fn = "validate_gstin"
  /\ call.outcome = Pending
  /\ call' = [call EXCEPT !.outcome = Returns(validate_gstin(call.args[1], call.args[2]))]
  /\ StoreUnchanged

\* re.match(r'^\d{n}$', code)
IsDigits(code, n) == Len(code) = n /\ \A i \in 1..n : code[i] \in Digits

validate_hsn_sac(code, is_service) ==
  IF code = <<>> THEN Invalid("HSN/SAC code is required")
  ELSE LET stripped == Strip(code)
       IN IF is_service
          THEN IF IsDigits(stripped, 6) THEN Valid
               ELSE Invalid("SAC code must be exactly 6 digits")
          ELSE IF IsDigits(stripped, 4) \/ IsDigits(stripped, 6) \/ IsDigits(stripped, 8)
               THEN Valid
               ELSE Invalid("HSN code must be 4, 6, or 8 digits")

validate_hsn_sac_call ==
  /\ call.fn = "validate_hsn_sac"
  /\ call.outcome = Pending
  /\ call' = [call EXCEPT !.outcome = Returns(validate_hsn_sac(call.args[1], call.args[2]))]
  /\ StoreUnchanged

\* the fields declared before the given one
FieldsBefore(fields, field) ==
  {fields[j] : j \in {i \in 1..Len(fields) : \A k \in 1..i : fields[k] # field}}

\* `values` of the validator of a field: of the fields of the input, those
\* validated before it
ValuesAt(fields, field, data) ==
  [f \in FieldsBefore(fields, field) \cap DOMAIN data |-> data[f]]

\* values.get(key, default)
ValuesGet(values, key, default) == IF key \in DOMAIN values THEN values[key] ELSE default

CustomerFields ==
  <<"name", "gstin", "address", "city", "state", "country", "pincode", "email", "phone",
    "notes">>

\* @validator('gstin'): the value it returns, or the error it raises
validate_gstin_format(v, values) ==
  IF v = <<>> THEN Returns(v)
  ELSE LET country == ValuesGet(values, "country", "")
       IN IF v = URP
          THEN IF country = "India" THEN Raises("ValueError") ELSE Returns(v)
          ELSE IF country = "India"
          THEN IF validate_gstin(v, "India").is_valid THEN Returns(v)
               ELSE Raises("ValueError")
          ELSE Raises("ValueError")

\* the country after prepare_customer_data
StandardCountry(country) ==
  CASE country = "india" -> "India"
    [] country = "australia" -> "Australia"
    [] OTHER -> country

\* CustomerBase(**data), for an input whose other fields are valid: the
\* gstin validator runs when a gstin is given, and the model validator that
\* runs after the fields fills in the country's spelling and the foreign
\* customer's "URP"
CustomerBase(data) ==
  LET gstin == IF "gstin" \in DOMAIN data
               THEN validate_gstin_format(data.gstin,
                                          ValuesAt(CustomerFields, "gstin", data))
               ELSE Returns(<<>>)
      country == StandardCountry(IF "country" \in DOMAIN data THEN data.country ELSE "India")
  IN IF gstin.kind = "raises" THEN Raises("ValidationError")
     ELSE Returns([gstin |-> IF country # "India" /\ gstin.value = <<>> THEN URP
                             ELSE gstin.value,
                   country |-> country])

CustomerBase_call ==
  /\ call.fn = "CustomerBase"
  /\ call.outcome = Pending
  /\ call' = [call EXCEPT !.outcome = CustomerBase(call.args[1])]
  /\ StoreUnchanged

ProductFields ==
  <<"name", "description", "hsn_sac", "sku", "is_service", "price", "tax_rate", "unit",
    "stock_quantity", "low_stock_threshold">>

\* @validator('hsn_sac')
validate_hsn_sac_code(v, values) ==
  IF v = <<>> THEN Returns(v)
  ELSE IF validate_hsn_sac(v, ValuesGet(values, "is_service", FALSE)).is_valid
  THEN Returns(v)
  ELSE Raises("ValueError")

\* ProductBase(**data), for an input whose other fields are valid
ProductBase(data) ==
  LET hsn_sac == IF "hsn_sac" \in DOMAIN data
                 THEN validate_hsn_sac_code(data.hsn_sac,
                                            ValuesAt(ProductFields, "hsn_sac", data))
                 ELSE Returns(<<>>)
  IN IF hsn_sac.kind = "raises" THEN Raises("ValidationError")
     ELSE Returns([hsn_sac |-> hsn_sac.value,
                   is_service |-> IF "is_service" \in DOMAIN data THEN data.is_service
                                  ELSE FALSE])

ProductBase_call ==
  /\ call.fn = "ProductBase"
  /\ call.outcome = Pending
  /\ call' = [call EXCEPT !.outcome = ProductBase(call.args[1])]
  /\ StoreUnchanged

(***************************************************************************)
(* endpoints/business_profiles.py.  The handlers run for the user of the   *)
(* request's token, current_user.                                          *)
(***************************************************************************)
\* next value of business_profiles.id
NextBusinessProfileId == Max(DOMAIN business_profiles \cup {0}) + 1

\* models.BusinessProfile(**business_profile_in.dict(), user_id=current_user.id);
\* current_invoice_number takes its column default
NewBusinessProfile(business_profile_in, current_user) ==
  [user_id |-> current_user, name |-> business_profile_in.name,
   state |-> business_profile_in.state, gstin |-> business_profile_in.gstin,
   current_invoice_number |-> 1, is_default |-> business_profile_in.is_default]

\* POST /business-profiles/
create_business_profile(business_profile_in, current_user) ==
  /\ NextBusinessProfileId <= MaxBusinessProfileId
  /\ business_profiles' =
       Commit(business_profiles,
              Put(business_profiles, NextBusinessProfileId,
                  NewBusinessProfile(business_profile_in, current_user)))
  /\ issued' = Put(issued, NextBusinessProfileId, <<>>)
  /\ response' = Ok
  /\ UNCHANGED <<products, invoices, invoice_items, invoice_id_seq, current_year,
                 sessions, call>>

\* for field, value in business_profile_in.dict(exclude_unset=True).items():
\*     setattr(business_profile, field, value)
SetAttrs(business_profile, fields) ==
  [f \in DOMAIN business_profile |->
     IF f \in DOMAIN fields THEN fields[f] ELSE business_profile[f]]

\* PUT /business-profiles/{business_profile_id}; business_profile_in holds
\* the fields the request set
update_business_profile(business_profile_id, business_profile_in, current_user) ==
  LET id == FindBusinessProfile(business_profile_id, current_user)
  IN
  /\ UNCHANGED <<products, invoices, invoice_items, invoice_id_seq, current_year,
                 issued, sessions, call>>
  /\ IF id = NoId THEN
       /\ response' = Error(404, "Business profile not found")
       /\ UNCHANGED business_profiles
     ELSE
       /\ business_profiles' =
            Commit(business_profiles,
                   Put(business_profiles, id,
                       SetAttrs(business_profiles[id], business_profile_in)))
       /\ response' = Ok

\* .filter(user_id == current_user.id, id != business_profile_id)
\* .update({is_default: False}), then business_profile.is_default = True
ResetOtherDefaults(profiles, business_profile_id, current_user) ==
  [p \in DOMAIN profiles |->
     IF p = business_profile_id THEN [profiles[p] EXCEPT !.is_default = TRUE]
     ELSE IF profiles[p].user_id = current_user
     THEN [profiles[p] EXCEPT !.is_default = FALSE]
     ELSE profiles[p]]

\* PUT /business-profiles/{business_profile_id}/default
set_default_business_profile(business_profile_id, current_user) ==
  LET id == FindBusinessProfile(business_profile_id, current_user)
  IN
  /\ UNCHANGED <<products, invoices, invoice_items, invoice_id_seq, current_year,
                 issued, sessions, call>>
  /\ IF id = NoId THEN
       /\ response' = Error(404, "Business profile not found")
       /\ UNCHANGED business_profiles
     ELSE
       /\ business_profiles' =
            Commit(business_profiles,
                   ResetOtherDefaults(business_profiles, id, current_user))
       /\ response' = Ok

(***************************************************************************)
(* The requests the specifications draw from.                              *)
(***************************************************************************)
\* amounts are counted in thousandths of a rupee
Rupees(n) == n * 1000
Paise(n) == n * 10

Item(product_id, quantity, rate) ==
  [product_id |-> product_id, quantity |-> quantity, rate |-> rate]

\* an InvoiceCreate body; status, irn, discount_amount, round_off as given
InvoiceCreate(bp, customer, status, irn, discount_amount, round_off, items) ==
  [business_profile_id |-> bp, customer_id |-> customer, status |-> status, irn |-> irn,
   discount_amount |-> discount_amount, round_off |-> round_off, items |-> items]

\* an InvoiceUpdate body; a field left out of the request is None, and an
\* items list left out is handled as the empty list is (if invoice_in.items)
InvoiceUpdate(bp, customer, status, irn, discount_amount, round_off, items) ==
  [business_profile_id |-> bp, customer_id |-> customer, status |-> status, irn |-> irn,
   discount_amount |-> discount_amount, round_off |-> round_off, items |-> items]

\* a NIC document with one ItemList entry
NicItem(hsn, name, rate, ass_amt, igst, cgst, sgst) ==
  [HsnCd |-> hsn, PrdDesc |-> name, GstRt |-> rate, Unit |-> "NOS", Qty |-> 1,
   UnitPrice |-> ass_amt, AssAmt |-> ass_amt, TotItemVal |-> ass_amt + igst + cgst + sgst,
   IgstAmt |-> igst, CgstAmt |-> cgst, SgstAmt |-> sgst]

NicJson(no, dt, seller, buyer, ass_val, igst, cgst, sgst, item_list) ==
  [DocDtls |-> [No |-> no, Dt |-> dt],
   SellerDtls |-> [Gstin |-> seller],
   BuyerDtls |-> [Gstin |-> buyer],
   ValDtls |-> [AssVal |-> ass_val, CgstVal |-> cgst, SgstVal |-> sgst, IgstVal |-> igst,
                TotInvVal |-> ass_val + igst + cgst + sgst],
   ItemList |-> item_list]

\* a record without one of its fields
Without(r, key) == [k \in DOMAIN r \ {key} |-> r[k]]

InvoiceIds == 1..MaxInvoiceId

\* one request of the given sets, handled from start to end with no other
\* request in between
NextOver(creates, updates, documents) ==
  \/ \E invoice_in \in creates : create_invoice(invoice_in)
  \/ \E invoice_id \in InvoiceIds, invoice_in \in updates :
       update_invoice(invoice_id, invoice_in)
  \/ \E invoice_id \in InvoiceIds : delete_invoice(invoice_id)
  \/ \E nic_json \in documents : import_invoice_from_nic_json(nic_json)

(***************************************************************************)
(* Spec: numbering and references.  The requests vary the business         *)
(* profile, the customer and the products they name, among them records    *)
(* of another user and records that do not exist; the documents vary       *)
(* their number, seller and buyer.                                         *)
(***************************************************************************)
OneItem == <<Item(1, 1, Rupees(100))>>

CreateRequests ==
  {InvoiceCreate(bp, 1, DRAFT, NoneStr, Some(0), Some(0), OneItem) : bp \in {1, 2, 3, 9}}
  \cup {InvoiceCreate(1, customer, DRAFT, NoneStr, Some(0), Some(0), OneItem) :
          customer \in {3, 9}}
  \cup {InvoiceCreate(1, 1, DRAFT, NoneStr, Some(0), Some(0), items) :
          items \in {<<Item(1, 1, Rupees(100)), Item(9, 1, Rupees(100))>>,
                     <<Item(3, 1, Rupees(100))>>}}

UpdateRequests ==
  {InvoiceUpdate(bp, NoId, NoneStr, NoneStr, Null, Null, OneItem) : bp \in {NoId, 0, 2, 9}}
  \cup {InvoiceUpdate(NoId, 9, NoneStr, NoneStr, Null, Null, OneItem)}
  \cup {InvoiceUpdate(NoId, NoId, NoneStr, NoneStr, Null, Null,
                       <<Item(1, 1, Rupees(100)), Item(3, 1, Rupees(100))>>)}

\* "AC-INV-25-00001" and "7"
GeneratedLooking == <<"A", "C", "-", "I", "N", "V", "-", "2", "5", "-", "0", "0", "0", "0", "1">>
PlainNumber == <<"7">>

WebItem == NicItem("998314", "Web Development", 18, Rupees(100), 0, Rupees(9), Rupees(9))

\* an entry whose product the user does not have yet
HostingItem == NicItem("998315", "Hosting", 18, Rupees(100), 0, Rupees(9), Rupees(9))

Seller1 == "29AAAAA0000A1Z5"
Buyer1 == "29CCCCC0000C1Z9"

\* a document of one line under CGST and SGST, seller and buyer known
GoodDocument ==
  NicJson(PlainNumber, "15/01/2025", Seller1, Buyer1, Rupees(100), 0, Rupees(9), Rupees(9),
          <<WebItem>>)

NicDocuments ==
  {NicJson(no, "15/01/2025", Seller1, Buyer1, Rupees(100), 0, Rupees(9), Rupees(9), <<WebItem>>) :
     no \in {GeneratedLooking, PlainNumber}}
  \cup {NicJson(PlainNumber, "15/01/2025", "29XXXXX0000X1Z0", Buyer1,
                Rupees(100), 0, Rupees(9), Rupees(9), <<WebItem>>),
        NicJson(PlainNumber, "15/01/2025", Seller1, Buyer1,
                Rupees(100), 0, Rupees(9), Rupees(9), <<WebItem, Without(WebItem, "HsnCd")>>),
        NicJson(PlainNumber, "15/01/2025", Seller1, Buyer1,
                Rupees(100), 0, Rupees(9), Rupees(9), <<HostingItem, Without(WebItem, "Qty")>>)}

Next == NextOver(CreateRequests, UpdateRequests, NicDocuments) \/ NewYear

Spec == Init /\ [][Next]_vars

(***************************************************************************)
(* SpecStatus: status and IRN.  The requests vary the status and the IRN   *)
(* they carry (absent, empty, present); the rest of each request is fixed. *)
(***************************************************************************)
Irn1 == "IRN1"

StatusCreateRequests ==
  {InvoiceCreate(1, 1, status, NoneStr, Some(0), Some(0), OneItem) :
     status \in InvoiceStatus \cup {NoneStr}}
  \cup {InvoiceCreate(1, 1, status, irn, Some(0), Some(0), OneItem) :
          status \in {NoneStr, DRAFT, SENT}, irn \in {"", Irn1}}

StatusUpdateRequests ==
  {InvoiceUpdate(NoId, NoId, status, NoneStr, Null, Null, OneItem) : status \in {DRAFT, SENT}}
  \cup {InvoiceUpdate(NoId, NoId, NoneStr, Irn1, Null, Null, OneItem)}

StatusDocuments ==
  {GoodDocument}

NextStatus == NextOver(StatusCreateRequests, StatusUpdateRequests, StatusDocuments)

SpecStatus == Init /\ [][NextStatus]_vars

(***************************************************************************)
(* SpecTotals: amounts.  The requests vary the customer (same state as the *)
(* business or another), the items, the discount and the round-off; the    *)
(* documents carry IGST, CGST and SGST, or all three.                      *)
(***************************************************************************)
RiceItem == <<Item(2, 2, Rupees(100))>>
Buyer2 == "27BBBBB0000B1Z2"

TotalsCreateRequests ==
  {InvoiceCreate(1, customer, NoneStr, NoneStr, Some(0), Some(0), items) :
     customer \in {1, 2}, items \in {OneItem, RiceItem, OneItem \o RiceItem}}
  \cup {InvoiceCreate(1, 1, NoneStr, NoneStr, discount_amount, round_off, OneItem) :
          discount_amount \in {Some(0), Some(Rupees(5))}, round_off \in {Some(0), Some(Paise(50))}}

TotalsUpdateRequests ==
  {InvoiceUpdate(NoId, customer, NoneStr, NoneStr, Null, Null, OneItem) : customer \in {1, 2}}
  \cup {InvoiceUpdate(2, NoId, NoneStr, NoneStr, Null, Null, RiceItem),
        InvoiceUpdate(NoId, NoId, NoneStr, NoneStr, Some(Rupees(5)), Null, OneItem),
        InvoiceUpdate(NoId, NoId, NoneStr, NoneStr, Some(0), Some(0), OneItem)}

TotalsDocuments ==
  {GoodDocument,
   NicJson(PlainNumber, "15/01/2025", Seller1, Buyer2, Rupees(100), Rupees(18), 0, 0,
           <<NicItem("998314", "Web Development", 18, Rupees(100), Rupees(18), 0, 0)>>),
   NicJson(PlainNumber, "15/01/2025", Seller1, Buyer1, Rupees(100),
           Rupees(18), Rupees(9), Rupees(9),
           <<NicItem("998314", "Web Development", 18, Rupees(100),
                     Rupees(18), Rupees(9), Rupees(9))>>)}

NextTotals == NextOver(TotalsCreateRequests, TotalsUpdateRequests, TotalsDocuments)

SpecTotals == Init /\ [][NextTotals]_vars

(***************************************************************************)
(* SpecStates: jurisdiction.  The requests vary the business profile and   *)
(* the customer, in the same state or in different ones; the document is   *)
(* of a seller and a buyer in one state.                                   *)
(***************************************************************************)
StatesCreateRequests ==
  {InvoiceCreate(bp, customer, NoneStr, NoneStr, Some(0), Some(0), OneItem) :
     bp \in {1, 2}, customer \in {1, 2}}

StatesUpdateRequests ==
  {InvoiceUpdate(2, NoId, NoneStr, NoneStr, Null, Null, OneItem),
   InvoiceUpdate(NoId, 2, NoneStr, NoneStr, Null, Null, <<>>),
   InvoiceUpdate(1, 1, NoneStr, NoneStr, Null, Null, OneItem)}

StatesDocuments ==
  {GoodDocument}

NextStates == NextOver(StatesCreateRequests, StatesUpdateRequests, StatesDocuments)

SpecStates == Init /\ [][NextStates]_vars

(***************************************************************************)
(* SpecCalc: the tax of a line.  calculate_tax is called with subtotals    *)
(* and rates, among them 0; the requests carry lines of several            *)
(* quantities, rates and products for customers in and out of the state    *)
(* of the business.  The amounts are such that the tax is a whole number   *)
(* of thousandths of a rupee.                                              *)
(***************************************************************************)
LineSubtotals == {0, Rupees(2), Rupees(100)}
TaxRates == {0, 5, 12, 18, 28}

CalcCalls ==
  {Call("calculate_tax", <<subtotal, tax_rate, tax_type>>) :
     subtotal \in LineSubtotals, tax_rate \in TaxRates, tax_type \in TaxType}

CalcCreateRequests ==
  {InvoiceCreate(1, customer, NoneStr, NoneStr, Some(0), Some(0), items) :
     customer \in {1, 2},
     items \in {OneItem, RiceItem, <<Item(1, 2, Rupees(250)), Item(2, 1, Rupees(2))>>}}

CalcUpdateRequests ==
  {InvoiceUpdate(NoId, 2, NoneStr, NoneStr, Null, Null, <<Item(1, 4, Rupees(2))>>)}

InitCalc ==
  /\ InitStore
  /\ call \in CalcCalls

NextCalc ==
  \/ calculate_tax_call
  \/ \E invoice_in \in CalcCreateRequests : create_invoice(invoice_in)
  \/ \E invoice_id \in InvoiceIds, invoice_in \in CalcUpdateRequests :
       update_invoice(invoice_id, invoice_in)

SpecCalc == InitCalc /\ [][NextCalc]_vars

(***************************************************************************)
(* SpecPdf: the PDF of an invoice.  Every tier of the rendering succeeds   *)
(* or fails, in every combination; the customer's address is present,      *)
(* empty or null.                                                          *)
(***************************************************************************)
TierOutcomes == {"ok", "raises"}
ImportOutcomes == {"ok", "raises", "ImportError"}

PdfEnvs ==
  [business_name : {"Acme"}, customer_address : {NoneStr, "", "12 MG Road"},
   prepare : TierOutcomes, full : TierOutcomes, simplified : TierOutcomes,
   error_doc : TierOutcomes, canvas : TierOutcomes,
   render : {"ok"}, weasyprint : {"ok"}, xhtml2pdf : {"ok"}]

HtmlEnvs ==
  [business_name : {"Acme"}, customer_address : {NoneStr, "12 MG Road"},
   prepare : TierOutcomes, full : TierOutcomes, simplified : TierOutcomes,
   error_doc : TierOutcomes, canvas : TierOutcomes,
   render : TierOutcomes, weasyprint : ImportOutcomes, xhtml2pdf : ImportOutcomes]

PdfCalls ==
  {Call("generate_invoice_pdf", env) : env \in PdfEnvs}
  \cup {Call("generate_invoice_pdf_html", env) : env \in HtmlEnvs}

InitPdf ==
  /\ InitStore
  /\ call \in PdfCalls

NextPdf ==
  \/ generate_invoice_pdf_call
  \/ generate_invoice_pdf_html_call

SpecPdf == InitPdf /\ [][NextPdf]_vars

(***************************************************************************)
(* SpecConc: requests to create invoices, handled side by side.            *)
(***************************************************************************)
ConcCreateRequests ==
  {InvoiceCreate(bp, 1, NoneStr, NoneStr, Some(0), Some(0), OneItem) : bp \in {1, 2, 9}}
  \cup {InvoiceCreate(1, 9, NoneStr, NoneStr, Some(0), Some(0), OneItem),
        InvoiceCreate(1, 1, NoneStr, NoneStr, Some(0), Some(0), <<Item(9, 1, Rupees(100))>>)}

NextConc ==
  \/ \E w \in Workers, invoice_in \in ConcCreateRequests : load_business_profile(w, invoice_in)
  \/ \E w \in Workers : flush_invoice(w)
  \/ \E w \in Workers : commit_invoice(w)

SpecConc == Init /\ [][NextConc]_vars

(***************************************************************************)
(* SpecExport: the two export endpoints on the stored invoices, and the    *)
(* import of what the NIC exporter returned.  The invoices are created     *)
(* for a customer of the seller's state, of another state and without a    *)
(* GSTIN, with a product that has no HSN code, and with a line of fifty    *)
(* paise; an update moves an invoice to a customer of another state and    *)
(* brings no items.                                                        *)
(***************************************************************************)
ExportCreateRequests ==
  {InvoiceCreate(1, customer, DRAFT, NoneStr, Some(0), Some(0), OneItem) :
     customer \in {1, 2, 4}}
  \cup {InvoiceCreate(1, 1, DRAFT, NoneStr, Some(0), Some(0), items) :
          items \in {<<Item(4, 1, Rupees(100))>>, <<Item(1, 1, Paise(50))>>}}

ExportUpdateRequests ==
  {InvoiceUpdate(NoId, 2, NoneStr, NoneStr, Null, Null, <<>>)}

\* the document the last call of invoice_to_nic_json returned
ExportedDocuments ==
  IF call.fn = "invoice_to_nic_json" /\ call.outcome.kind = "returns"
  THEN {call.outcome.value} ELSE {}

NextExport ==
  \/ NextOver(ExportCreateRequests, ExportUpdateRequests, ExportedDocuments)
  \/ \E invoice_id \in InvoiceIds : export_invoice_to_nic_json(invoice_id)
  \/ \E invoice_id \in InvoiceIds : get_invoice_gst_json(invoice_id)

SpecExport == Init /\ [][NextExport]_vars

(***************************************************************************)
(* Numbering and references, checked under Spec.                           *)
(***************************************************************************)
\* C2: in every reachable state no two stored invoices of the same business
\* profile have the same invoice_number.
C2_UniqueNumbersPerProfile ==
  \A i, j \in DOMAIN invoices :
    (i # j /\ invoices[i].business_profile_id = invoices[j].business_profile_id)
      => invoices[i].invoice_number # invoices[j].invoice_number

\* C3: in every step a profile's current_invoice_number grows by 1 when the
\* step commits a new invoice for that profile (by create_invoice or by the
\* import) and is unchanged otherwise.
C3_CounterOncePerCommittedInvoice ==
  [][\A p \in DOMAIN business_profiles :
       LET new == {i \in DOMAIN invoices' \ DOMAIN invoices :
                     invoices'[i].business_profile_id = p}
           before == business_profiles[p].current_invoice_number
           after == business_profiles'[p].current_invoice_number
       IN after = before + (IF new = {} THEN 0 ELSE 1)]_vars

\* the text is decimal digits only
AllDigits(s) == \A i \in 1..Len(s) : DigitValue(s[i]) >= 0

\* PREFIX-INV-YY-NNNNN with the given prefix, year and sequence number
HasNumberFormat(number, prefix, year, n) ==
  /\ Len(number) = 15
  /\ SubSeq(number, 1, 2) = prefix
  /\ SubSeq(number, 3, 7) = <<"-", "I", "N", "V", "-">>
  /\ AllDigits(SubSeq(number, 8, 9)) /\ IntOf(SubSeq(number, 8, 9)) = year % 100
  /\ number[10] = "-"
  /\ AllDigits(SubSeq(number, 11, 15)) /\ IntOf(SubSeq(number, 11, 15)) = n

\* the first two letters of each business name, uppercased
ExpectedPrefix(p) ==
  CASE p = 1 -> <<"A", "C">> [] p = 2 -> <<"A", "C">> [] p = 3 -> <<"Z", "E">>

\* C4: the numbers successive create_invoice calls return for one business
\* profile have strictly increasing numeric suffixes, and each has the form
\* PREFIX-INV-YY-NNNNN, NNNNN being the profile's current_invoice_number at
\* the call, zero-padded to 5 digits.
C4_SequentialNumbers ==
  /\ [](\A p \in DOMAIN issued : \A i, j \in 1..Len(issued[p]) :
          i < j => NumericSuffix(issued[p][i]) < NumericSuffix(issued[p][j]))
  /\ [][\A p \in DOMAIN issued :
          issued'[p] # issued[p] =>
            /\ Len(issued'[p]) = Len(issued[p]) + 1
            /\ HasNumberFormat(issued'[p][Len(issued'[p])], ExpectedPrefix(p), current_year,
                               business_profiles[p].current_invoice_number)]_vars

\* two create_invoice calls for one business profile have returned
C4_Witness == \E p \in DOMAIN issued : Len(issued[p]) >= 2

\* the request names a business profile, customer or product the user has not
CreateNamesMissing(invoice_in) ==
  \/ FindBusinessProfile(invoice_in.business_profile_id, CurrentUser) = NoId
  \/ FindCustomer(invoice_in.customer_id, CurrentUser) = NoId
  \/ ProductMissing(invoice_in.items, CurrentUser)

UpdateNamesMissing(invoice_in) ==
  \/ /\ invoice_in.business_profile_id # NoId
     /\ FindBusinessProfile(invoice_in.business_profile_id, CurrentUser) = NoId
  \/ /\ invoice_in.customer_id # NoId
     /\ FindCustomer(invoice_in.customer_id, CurrentUser) = NoId
  \/ ProductMissing(invoice_in.items, CurrentUser)

\* C5: a create_invoice or update_invoice that names a missing business
\* profile, customer or product answers with an error and leaves every table
\* as it was.
C5_MissingReferenceChangesNothing ==
  [][\/ (response'.status_code >= 400 /\ tables' = tables)
     \/ /\ \A invoice_in \in CreateRequests :
             ~(CreateNamesMissing(invoice_in) /\ create_invoice(invoice_in))
        /\ \A invoice_id \in DOMAIN invoices, invoice_in \in UpdateRequests :
             ~(UpdateNamesMissing(invoice_in) /\ update_invoice(invoice_id, invoice_in))]_vars

\* a request was refused for a missing product while invoices are stored
C5_Witness ==
  /\ response = Error(404, "Product not found")
  /\ invoices # <<>>
  /\ \E p \in DOMAIN business_profiles : business_profiles[p].current_invoice_number > 1

(***************************************************************************)
(* Status and IRN, checked under SpecStatus.                               *)
(***************************************************************************)
\* C6: every stored invoice whose irn is non-empty has status Approved.
C6_IrnImpliesApproved ==
  \A i \in DOMAIN invoices : TruthyStr(invoices[i].irn) => invoices[i].status = APPROVED

\* C7: create_invoice stores Approved when the draft carries a non-empty IRN,
\* else the status of the request, else Draft.
C7_CreateStatus ==
  [][(response'.status_code = 200 /\ invoice_id_seq' = invoice_id_seq + 1) =>
       \A invoice_in \in StatusCreateRequests :
         create_invoice(invoice_in) =>
           invoices'[invoice_id_seq].status =
             (IF invoice_in.irn \notin {NoneStr, ""} THEN APPROVED
              ELSE IF invoice_in.status = NoneStr THEN DRAFT
              ELSE invoice_in.status)]_vars

\* a created invoice carries an IRN and is Approved, another was created Sent
C7_Witness ==
  /\ response = Ok
  /\ \E i \in DOMAIN invoices : invoices[i].irn = Irn1 /\ invoices[i].status = APPROVED
  /\ \E i \in DOMAIN invoices : invoices[i].irn = NoneStr /\ invoices[i].status = SENT

\* the place of a status in Draft -> Finalized -> Sent -> E-Invoice ->
\* GST-Filed -> Archived; Approved is beside the chain
Stage(status) ==
  CASE status = DRAFT -> 1 [] status = FINALIZED -> 2 [] status = SENT -> 3
    [] status = E_INVOICE -> 4 [] status = GST_FILED -> 5 [] status = ARCHIVED -> 6
    [] OTHER -> 0

\* C8: no step moves a stored invoice from a later stage of the chain to an
\* earlier one.
C8_StatusOnlyForward ==
  [][\A i \in DOMAIN invoices \cap DOMAIN invoices' :
       (Stage(invoices[i].status) > 0 /\ Stage(invoices'[i].status) > 0)
         => Stage(invoices'[i].status) >= Stage(invoices[i].status)]_vars

(***************************************************************************)
(* Amounts, checked under SpecTotals.                                      *)
(***************************************************************************)
\* C9: of every stored invoice either igst_total is populated and cgst_total
\* and sgst_total are null or zero, or cgst_total and sgst_total are
\* populated and igst_total is null or zero, never both, and the populated
\* side is the one the invoice's tax_type names.
C9_OneTaxSide ==
  \A i \in DOMAIN invoices :
    LET invoice == invoices[i] IN
      IF invoice.tax_type = IGST
        THEN /\ invoice.igst_total # Null
             /\ OrZero(invoice.cgst_total) = 0
             /\ OrZero(invoice.sgst_total) = 0
        ELSE /\ invoice.cgst_total # Null
             /\ invoice.sgst_total # Null
             /\ OrZero(invoice.igst_total) = 0

\* C10: every stored invoice satisfies
\* total = subtotal + tax_amount - discount_amount + round_off.
C10_TotalFormula ==
  \A i \in DOMAIN invoices :
    LET invoice == invoices[i] IN
      invoice.total = invoice.subtotal + invoice.tax_amount
                        - OrZero(invoice.discount_amount) + OrZero(invoice.round_off)

(***************************************************************************)
(* Requests side by side, checked under SpecConc.                          *)
(***************************************************************************)
\* C1: however the requests to create invoices for one business profile
\* interleave, the invoice numbers they commit are pairwise different.
C1_NoDuplicateUnderInterleaving ==
  \A p \in DOMAIN issued : \A i, j \in 1..Len(issued[p]) :
    i # j => issued[p][i] # issued[p][j]

\* C11: every item of a stored invoice carries the invoice's tax_type; an
\* item under IGST has no CGST or SGST amount and an item under CGST_SGST
\* has no IGST amount.
C11_NoMixedJurisdiction ==
  \A i \in DOMAIN invoices : \A k \in 1..Len(invoice_items[i]) :
    LET item == invoice_items[i][k] IN
      /\ item.tax_type = invoices[i].tax_type
      /\ item.tax_type = IGST => (OrZero(item.cgst) = 0 /\ OrZero(item.sgst) = 0)
      /\ item.tax_type = CGST_SGST => OrZero(item.igst) = 0

\* the row's tax_type is IGST when the state of the business profile it
\* refers to after the step differs from the state of its customer, else
\* CGST_SGST
TaxTypeFollowsStates(invoice) ==
  invoice.tax_type =
    (IF business_profiles'[invoice.business_profile_id].state
          # Customers[invoice.customer_id].state
     THEN IGST ELSE CGST_SGST)

\* C12: when create_invoice or update_invoice commits, the invoice's tax_type
\* is IGST if the states of the business profile and the customer it then
\* refers to differ, and CGST_SGST if they are equal.
C12_TaxTypeFollowsStates ==
  [][response'.status_code = 200 =>
       /\ \A invoice_in \in StatesCreateRequests :
            (invoice_id_seq' = invoice_id_seq + 1 /\ create_invoice(invoice_in))
              => TaxTypeFollowsStates(invoices'[invoice_id_seq])
       /\ \A invoice_id \in DOMAIN invoices \cap DOMAIN invoices' :
            \A invoice_in \in StatesUpdateRequests :
              (invoice_id_seq' = invoice_id_seq /\ update_invoice(invoice_id, invoice_in))
                => TaxTypeFollowsStates(invoices'[invoice_id])]_vars

\* an invoice created for a customer in the state of its business profile
\* was moved to a business profile in another state
C12_Witness ==
  /\ response = Ok
  /\ business_profiles[2].current_invoice_number = 1
  /\ \E i \in DOMAIN invoices :
       /\ invoices[i].business_profile_id = 2
       /\ invoices[i].customer_id = 1
       /\ invoices[i].tax_type = IGST

(***************************************************************************)
(* The tax of a line, checked under SpecCalc.                              *)
(***************************************************************************)
\* the amounts of a line under its tax type: a side reads 0 when it is
\* null or zero
LineTaxIsRight(subtotal, tax_rate, tax_type, tax_amount, cgst, sgst, igst) ==
  IF tax_type = IGST
  THEN /\ igst * 100 = subtotal * tax_rate
       /\ tax_amount = igst
       /\ cgst = 0 /\ sgst = 0
  ELSE /\ cgst * 200 = subtotal * tax_rate
       /\ sgst = cgst
       /\ tax_amount = cgst + sgst
       /\ igst = 0

\* C13: for every line subtotal and tax rate, what calculate_tax returns and
\* what create_invoice and update_invoice store per item is: under IGST,
\* igst = tax_amount = subtotal x rate / 100 with cgst and sgst zero or
\* null; under CGST_SGST, cgst = sgst = subtotal x rate / 200 and
\* tax_amount = cgst + sgst with igst zero or null.
C13_LineTax ==
  /\ call.outcome # Pending =>
       /\ call.outcome.kind = "returns"
       /\ LET r == call.outcome.value
          IN LineTaxIsRight(call.args[1], call.args[2], call.args[3],
                            r.tax_amount, r.cgst, r.sgst, r.igst)
  /\ \A i \in DOMAIN invoice_items : \A k \in 1..Len(invoice_items[i]) :
       LET item == invoice_items[i][k]
       IN LineTaxIsRight(item.subtotal, item.tax_rate, item.tax_type, item.tax_amount,
                         OrZero(item.cgst), OrZero(item.sgst), OrZero(item.igst))

\* calculate_tax has returned a tax that is not 0, and an invoice of two
\* lines under IGST and one under CGST_SGST are stored
C13_Witness ==
  /\ call.outcome # Pending
  /\ call.outcome.value.tax_amount > 0
  /\ \E i \in DOMAIN invoice_items :
       /\ Len(invoice_items[i]) = 2
       /\ invoice_items[i][1].tax_type = IGST
       /\ invoice_items[i][1].tax_amount > 0
  /\ \E i \in DOMAIN invoice_items :
       /\ Len(invoice_items[i]) = 1
       /\ invoice_items[i][1].tax_type = CGST_SGST
       /\ invoice_items[i][1].tax_amount > 0

(***************************************************************************)
(* The PDF of an invoice, checked under SpecPdf.                           *)
(***************************************************************************)
\* C14: whatever the inputs and whichever rendering tiers fail,
\* generate_invoice_pdf and generate_invoice_pdf_html return a non-empty
\* byte string that begins with %PDF; neither raises.
C14_AlwaysSomePdf ==
  call.outcome # Pending =>
    /\ call.outcome.kind = "returns"
    /\ Len(call.outcome.value) >= 4
    /\ SubSeq(call.outcome.value, 1, 4) = <<"%", "P", "D", "F">>

\* the HTML renderer was called for a customer whose address is null, every
\* tier down to the canvas failed, and the literal came back
C14_Witness ==
  /\ call.fn = "generate_invoice_pdf_html"
  /\ call.args.customer_address = NoneStr
  /\ call.args.weasyprint = "ImportError"
  /\ call.args.xhtml2pdf = "raises"
  /\ call.args.canvas = "raises"
  /\ call.outcome = Returns(EmergencyPdf)

(***************************************************************************)
(* SpecValidate: the validators on strings that are well formed, too       *)
(* short, in lower case, padded with a blank, with a state code out of     *)
(* range, and empty; for customers of India, of another country, and with  *)
(* no country given; for goods and for services.                           *)
(***************************************************************************)
\* "29AAAAA0000A1Z5", "URP", and strings near them
GstinStrings ==
  {<<"2", "9", "A", "A", "A", "A", "A", "0", "0", "0", "0", "A", "1", "Z", "5">>,
   <<"U", "R", "P">>,
   <<"u", "r", "p">>,
   <<" ", "U", "R", "P">>,
   <<"2", "9", "A", "A", "A", "A", "A", "0", "0", "0", "0", "A", "1", "Z">>,
   <<"2", "9", "a", "a", "a", "a", "a", "0", "0", "0", "0", "a", "1", "z", "5">>,
   <<" ", "2", "9", "A", "A", "A", "A", "A", "0", "0", "0", "0", "A", "1", "Z", "5">>,
   <<"9", "9", "A", "A", "A", "A", "A", "0", "0", "0", "0", "A", "1", "Z", "5">>,
   <<"0", "0", "A", "A", "A", "A", "A", "0", "0", "0", "0", "A", "1", "Z", "5">>,
   <<"2", "9", "A", "A", "A", "A", "A", "0", "0", "0", "0", "A", "1", "X", "5">>,
   <<"2", "9", "1", "1", "1", "1", "1", "A", "A", "A", "A", "A", "1", "Z", "5">>,
   <<>>}

\* "1006", "998314", and strings near them
HsnStrings ==
  {<<"1", "0", "0", "6">>,
   <<"9", "9", "8", "3", "1", "4">>,
   <<"1", "2", "3", "4", "5">>,
   <<"1", "2", "3", "4", "5", "6", "7", "8">>,
   <<"1", "0", "0", "a">>,
   <<" ", "1", "0", "0", "6">>,
   <<"1", "2", "3">>,
   <<>>}

Countries == {"India", "Australia", "india"}

CustomerInputs ==
  {[gstin |-> gstin, country |-> country] : gstin \in GstinStrings, country \in Countries}
  \cup {[gstin |-> gstin] : gstin \in GstinStrings}

ProductInputs ==
  {[hsn_sac |-> hsn_sac, is_service |-> is_service] :
     hsn_sac \in HsnStrings, is_service \in BOOLEAN}
  \cup {[hsn_sac |-> hsn_sac] : hsn_sac \in HsnStrings}

ValidateCalls ==
  {Call("validate_gstin", <<gstin, country>>) : gstin \in GstinStrings, country \in Countries}
  \cup {Call("validate_hsn_sac", <<code, is_service>>) :
          code \in HsnStrings, is_service \in BOOLEAN}
  \cup {Call("CustomerBase", <<data>>) : data \in CustomerInputs}
  \cup {Call("ProductBase", <<data>>) : data \in ProductInputs}

InitValidate ==
  /\ InitStore
  /\ call \in ValidateCalls

NextValidate ==
  \/ validate_gstin_call
  \/ validate_hsn_sac_call
  \/ CustomerBase_call
  \/ ProductBase_call

SpecValidate == InitValidate /\ [][NextValidate]_vars

(***************************************************************************)
(* The exporters and the import, checked under SpecExport.                 *)
(***************************************************************************)
\* C15: an exporter never raises: when it cannot build the document of an
\* invoice it returns {"error": message}, and a document it returns has no
\* field filled with a substitute for a missing value.  This is stated of
\* generate_gst_irp_json and of invoice_to_nic_json.
C15_FailureIsAnErrorPayload ==
  call.fn \in {"invoice_to_nic_json", "generate_gst_irp_json"} =>
    /\ call.outcome.kind = "returns"
    /\ "error" \notin DOMAIN call.outcome.value =>
         /\ call.outcome.value.DocDtls.Dt # ""
         /\ \A k \in 1..Len(call.outcome.value.ItemList) :
              call.outcome.value.ItemList[k].HsnCd \notin {"", NoneStr}

\* C17: when a stored invoice is exported with invoice_to_nic_json and the
\* document is imported with nic_json_to_invoice, the imported invoice has
\* the subtotal, the tax_amount and the total of the original, each rounded
\* to 2 decimals, and as many line items as the original.
C17_RoundTrip ==
  [][\A invoice_id \in DOMAIN invoices :
       LET outcome == ExportedNicJson(invoice_id)
       IN (/\ outcome.kind = "returns"
           /\ import_invoice_from_nic_json(outcome.value)
           /\ response'.status_code = 200)
            => LET original == invoices[invoice_id]
                   imported == invoices'[invoice_id_seq]
               IN /\ Round2(imported.subtotal) = Round2(original.subtotal)
                  /\ Round2(imported.tax_amount) = Round2(original.tax_amount)
                  /\ Round2(imported.total) = Round2(original.total)
                  /\ Len(invoice_items'[invoice_id_seq]) = Len(invoice_items[invoice_id])]_vars

(***************************************************************************)
(* The import, checked under Spec.                                         *)
(***************************************************************************)
\* C16: an import that fails, at whatever step, answers with one error and
\* leaves business_profiles, products, invoices and invoice_items as they
\* were: nothing it had flushed is persisted.
C16_FailedImportPersistsNothing ==
  [][\A nic_json \in NicDocuments :
       (import_invoice_from_nic_json(nic_json) /\ response'.status_code # 200)
         => /\ response' = Error(400, "Error importing JSON")
            /\ UNCHANGED tables]_vars

\* an import drew the id of its invoice, failed in the items loop, and the
\* tables are those of the start
C16_Witness ==
  /\ response = Error(400, "Error importing JSON")
  /\ invoice_id_seq = 2
  /\ invoices = <<>>
  /\ products = InitialProducts

(***************************************************************************)
(* The validators, checked under SpecValidate.                             *)
(***************************************************************************)
LowerLetters ==
  {"a", "b", "c", "d", "e", "f", "g", "h", "i", "j", "k", "l", "m",
   "n", "o", "p", "q", "r", "s", "t", "u", "v", "w", "x", "y", "z"}

\* C18: a customer input with a GSTIN is accepted exactly when its country
\* is India and validate_gstin finds the GSTIN a valid Indian one, or its
\* country is not India and the GSTIN is "URP"; the country is the one of
\* the same input (India when none is given).
C18_GstinJudgedByCountry ==
  (call.fn = "CustomerBase" /\ call.outcome # Pending /\ call.args[1].gstin # <<>>) =>
    LET data == call.args[1]
        country == StandardCountry(IF "country" \in DOMAIN data THEN data.country ELSE "India")
    IN call.outcome.kind = "returns"
         <=> \/ country = "India" /\ validate_gstin(data.gstin, "India").is_valid
             \/ country # "India" /\ data.gstin = URP

\* C19: validate_gstin accepts "29AAAAA0000A1Z5" for India, accepts "URP"
\* exactly when the country is not India, rejects every other string whose
\* length is not 15, and rejects every string of 15 characters with a
\* lower-case letter in it.
C19_ValidateGstin ==
  (call.fn = "validate_gstin" /\ call.outcome # Pending) =>
    LET gstin == call.args[1]
        country == call.args[2]
        is_valid == call.outcome.value.is_valid
    IN /\ (gstin = <<"2", "9", "A", "A", "A", "A", "A", "0", "0", "0", "0", "A", "1", "Z", "5">>
             /\ country = "India") => is_valid
       /\ gstin = URP => (is_valid <=> country # "India")
       /\ (gstin # URP /\ Len(gstin) # 15) => ~is_valid
       /\ (Len(gstin) = 15 /\ \E i \in 1..15 : gstin[i] \in LowerLetters) => ~is_valid

\* C20: a product input with a non-empty hsn_sac is accepted exactly when
\* the code passes validate_hsn_sac under the is_service of the same input
\* (false when none is given): 6 digits for a service, 4, 6 or 8 digits for
\* goods; a code of 5 digits is rejected in both.
C20_HsnSacJudgedByIsService ==
  (call.fn = "ProductBase" /\ call.outcome # Pending /\ call.args[1].hsn_sac # <<>>) =>
    LET data == call.args[1]
        is_service == IF "is_service" \in DOMAIN data THEN data.is_service ELSE FALSE
    IN /\ call.outcome.kind = "returns"
            <=> validate_hsn_sac(data.hsn_sac, is_service).is_valid
       /\ IsDigits(data.hsn_sac, 5) => call.outcome.kind = "raises"

(***************************************************************************)
(* SpecProfiles: the business profile endpoints, called by both users, on  *)
(* their own profiles, on each other's and on profiles that do not exist;  *)
(* the bodies set is_default to true, to false, or leave it out.           *)
(***************************************************************************)
Users == {CurrentUser, OtherUser}

BusinessProfileCreates ==
  {[name |-> <<"N", "e", "w">>, state |-> Karnataka, gstin |-> "29NNNNN0000N1Z3",
    is_default |-> is_default] : is_default \in BOOLEAN}

\* the fields an update request sets
BusinessProfileUpdates ==
  {[is_default |-> is_default] : is_default \in BOOLEAN}
  \cup {[name |-> <<"N", "e", "x", "t">>], <<>>}

BusinessProfileIds == 1..MaxBusinessProfileId

NextProfiles ==
  \/ \E business_profile_in \in BusinessProfileCreates, current_user \in Users :
       create_business_profile(business_profile_in, current_user)
  \/ \E business_profile_id \in BusinessProfileIds,
        business_profile_in \in BusinessProfileUpdates, current_user \in Users :
       update_business_profile(business_profile_id, business_profile_in, current_user)
  \/ \E business_profile_id \in BusinessProfileIds, current_user \in Users :
       set_default_business_profile(business_profile_id, current_user)

SpecProfiles == Init /\ [][NextProfiles]_vars

(***************************************************************************)
(* The default profile, checked under SpecProfiles.                        *)
(***************************************************************************)
DefaultsOf(user) ==
  {p \in DOMAIN business_profiles :
     business_profiles[p].user_id = user /\ business_profiles[p].is_default}

\* C21: in every state reached by create_business_profile,
\* update_business_profile and set_default_business_profile calls, each user
\* has at most one business profile with is_default true.
C21_AtMostOneDefault ==
  \A user \in Users : Cardinality(DefaultsOf(user)) <= 1

(***************************************************************************)
(* SpecCodes: the two exporters on invoices of every document type and     *)
(* every supply type, on an invoice whose supply type is None, and on      *)
(* records that have no supply_type or no document_type attribute; for a   *)
(* customer of the seller's state, of another state, and without a GSTIN.  *)
(***************************************************************************)
\* the members of DocumentType and of SupplyType, by name
DocumentTypes == {"INVOICE", "CREDIT_NOTE", "DEBIT_NOTE"}
SupplyTypes ==
  {"B2B", "B2C", "EXPORT_WITH_TAX", "EXPORT_WITHOUT_TAX", "SEZ_WITH_TAX", "SEZ_WITHOUT_TAX"}

\* the row create_invoice stores for one line of 100.00 of product 1
SampleRow(customer_id) ==
  LET tax_type == DetermineTaxType(InitialBusinessProfiles[1].state,
                                   Customers[customer_id].state)
  IN CreatedInvoice(InvoiceCreate(1, customer_id, DRAFT, NoneStr, Some(0), Some(0), OneItem),
                    InitialBusinessProfiles[1], tax_type,
                    <<BuildItem(OneItem[1], InitialProducts[1], tax_type)>>, FirstYear)

SamplePairs(customer_id) ==
  <<<<BuildItem(OneItem[1], InitialProducts[1], SampleRow(customer_id).tax_type),
      InitialProducts[1]>>>>

\* the invoice objects: with both attributes, without supply_type, with neither
SampleInvoices(customer_id) ==
  LET dated == SampleRow(customer_id) @@ [invoice_date |-> InvoiceDate]
  IN {dated @@ [document_type |-> document_type, supply_type |-> supply_type] :
        document_type \in DocumentTypes, supply_type \in SupplyTypes \cup {NoneStr}}
     \cup {dated @@ [document_type |-> document_type] : document_type \in DocumentTypes}
     \cup {dated}

CodesCalls ==
  {Call(fn, <<invoice, InitialBusinessProfiles[1], Customers[customer_id],
              SamplePairs(customer_id)>>) :
     fn \in {"invoice_to_nic_json", "generate_gst_irp_json"},
     <<customer_id, invoice>> \in
       UNION {{<<c, i>> : i \in SampleInvoices(c)} : c \in {1, 2, 4}}}

InitCodes ==
  /\ InitStore
  /\ call \in CodesCalls

NextCodes ==
  \/ invoice_to_nic_json_call
  \/ generate_gst_irp_json_call

SpecCodes == InitCodes /\ [][NextCodes]_vars

(***************************************************************************)
(* The codes of the exported document, checked under SpecCodes.            *)
(***************************************************************************)
\* the call returned a document, not an error payload
ReturnedDocument ==
  /\ call.fn \in {"invoice_to_nic_json", "generate_gst_irp_json"}
  /\ call.outcome.kind = "returns"
  /\ "error" \notin DOMAIN call.outcome.value

\* C22: in every document an exporter returns, DocDtls.Typ is INV for an
\* invoice whose document type is Invoice, CRN for a Credit Note and DBN for
\* a Debit Note.
C22_DocumentTypeCode ==
  (ReturnedDocument /\ "document_type" \in DOMAIN call.args[1])
    => call.outcome.value.DocDtls.Typ =
         CASE call.args[1].document_type = "INVOICE" -> "INV"
           [] call.args[1].document_type = "CREDIT_NOTE" -> "CRN"
           [] call.args[1].document_type = "DEBIT_NOTE" -> "DBN"

\* C23: in every document an exporter returns, TranDtls.SupTyp is B2B, B2C,
\* EXPWP, EXPWOP, SEZWP and SEZWOP for the supply types B2B, B2C, Export with
\* Tax, Export without Tax, SEZ with Tax and SEZ without Tax, and B2B for a
\* supply type that is none of them or is missing.
C23_SupplyTypeCode ==
  ReturnedDocument
    => call.outcome.value.TranDtls.SupTyp =
         IF "supply_type" \notin DOMAIN call.args[1] THEN "B2B"
         ELSE CASE call.args[1].supply_type = "B2C" -> "B2C"
                [] call.args[1].supply_type = "EXPORT_WITH_TAX" -> "EXPWP"
                [] call.args[1].supply_type = "EXPORT_WITHOUT_TAX" -> "EXPWOP"
                [] call.args[1].supply_type = "SEZ_WITH_TAX" -> "SEZWP"
                [] call.args[1].supply_type = "SEZ_WITHOUT_TAX" -> "SEZWOP"
                [] OTHER -> "B2B"

\* invoice_to_nic_json returned the document of an SEZ invoice, and
\* generate_gst_irp_json would return one for a record with no supply type
C23_Witness ==
  /\ ReturnedDocument
  /\ call.fn = "invoice_to_nic_json"
  /\ "supply_type" \in DOMAIN call.args[1]
  /\ call.args[1].supply_type = "SEZ_WITH_TAX"
  /\ call.outcome.value.TranDtls.SupTyp = "SEZWP"

(***************************************************************************)
(* SpecWords: num_to_words on amounts of no rupee, of a few rupees, of     *)
(* hundreds, thousands, lakhs and crores, each with no paise and with      *)
(* some.                                                                   *)
(***************************************************************************)
WholeRupees ==
  {0, 1, 19, 20, 21, 99, 100, 101, 120, 999, 1000, 1005, 1234, 20000, 99999, 100000,
   100001, 1234567, 9999999, 10000000, 12345678, 21000000}
PaiseParts == {0, 1, 10, 50, 99}

\* an amount, in paise
InPaise(whole, part) == whole * 100 + part

WordsCalls ==
  {Call("num_to_words", <<InPaise(whole, part)>>) :
     whole \in WholeRupees, part \in PaiseParts}

InitWords ==
  /\ InitStore
  /\ call \in WordsCalls

NextWords == num_to_words_call

SpecWords == InitWords /\ [][NextWords]_vars

(***************************************************************************)
(* The amount in words, checked under SpecWords.                           *)
(***************************************************************************)
\* " and N Paise" with N in 1..99 exactly when the amount has paise
PaiseWording(num) ==
  IF num % 100 = 0 THEN ""
  ELSE " and " \o get_words(num % 100) \o " Paise"

\* C24: for every non-negative amount with at most two decimal digits
\* num_to_words returns "Zero" for 0, and otherwise the words of the whole
\* rupees, which are not empty, grouped by Hundred, Thousand, Lakh and Crore,
\* followed by " and N Paise" exactly when the amount has paise; 100 gives
\* "One Hundred", 100000 "One Lakh", and 1234.50 "One Thousand Two Hundred
\* and Thirty Four and Fifty Paise".
C24_NumToWords ==
  (call.fn = "num_to_words" /\ call.outcome.kind = "returns")
    => LET num == call.args[1]
           words == call.outcome.value
       IN /\ num = 0 => words = "Zero"
          /\ num = InPaise(100, 0) => words = "One Hundred"
          /\ num = InPaise(100000, 0) => words = "One Lakh"
          /\ num = InPaise(1234, 50)
               => words = "One Thousand Two Hundred and Thirty Four and Fifty Paise"
          /\ num # 0
               => /\ get_words(num \div 100) # ""
                  /\ words = get_words(num \div 100) \o PaiseWording(num)

(***************************************************************************)
(* The order of the rendering strategies, checked under SpecPdf.           *)
(***************************************************************************)
\* the order the strategies are to be attempted in, of each entry point
StrategyOrder(fn) ==
  IF fn = "generate_invoice_pdf_html"
  THEN <<"html", "full", "simplified", "ultra", "literal">>
  ELSE <<"full", "simplified", "ultra", "literal">>

\* C25: the rendering strategies are attempted strictly in the order HTML
\* engine (on the HTML path), full render, simplified render, ultra-minimal
\* page, literal: what a call attempted is a beginning of that order, so a
\* strategy is attempted only after every earlier one, and a failure,
\* wherever in a strategy it occurs, leads to the next one with none skipped.
C25_StrategiesInOrder ==
  (call.fn \in {"generate_invoice_pdf", "generate_invoice_pdf_html"}
   /\ call.outcome # Pending)
    => /\ Len(call.attempts) <= Len(StrategyOrder(call.fn))
       /\ call.attempts = SubSeq(StrategyOrder(call.fn), 1, Len(call.attempts))

(***************************************************************************)
(* SpecItems: the items of an invoice.  Invoices are created with two      *)
(* lines, for a customer of the seller's state and of another; the updates *)
(* bring no items, one line, two lines, or a line of a product that does   *)
(* not exist, and keep or change the customer.                             *)
(***************************************************************************)
TwoItems == <<Item(1, 2, Rupees(250)), Item(2, 1, Rupees(2))>>

ItemsCreateRequests ==
  {InvoiceCreate(1, customer, NoneStr, NoneStr, Some(0), Some(0), items) :
     customer \in {1, 2}, items \in {OneItem \o RiceItem}}

ItemsUpdateRequests ==
  {InvoiceUpdate(NoId, NoId, NoneStr, NoneStr, Null, Null, items) :
     items \in {<<>>, RiceItem, <<Item(1, 1, Rupees(100)), Item(9, 1, Rupees(100))>>}}
  \cup {InvoiceUpdate(NoId, 2, NoneStr, NoneStr, Null, Null, TwoItems)}

ItemsDocuments == {GoodDocument}

NextItems == NextOver(ItemsCreateRequests, ItemsUpdateRequests, ItemsDocuments)

SpecItems == Init /\ [][NextItems]_vars

(***************************************************************************)
(* The items and the aggregates, checked under SpecItems.                  *)
(***************************************************************************)
\* the rows are what the items of the request give, one row per item and in
\* their order, under the tax type of the invoice
BuiltFrom(rows, items_in, invoice) ==
  /\ Len(rows) = Len(items_in)
  /\ \A k \in 1..Len(rows) :
       /\ rows[k].product_id = items_in[k].product_id
       /\ rows[k].quantity = items_in[k].quantity
       /\ rows[k].rate = items_in[k].rate
       /\ rows[k].subtotal = items_in[k].quantity * items_in[k].rate
       /\ rows[k].tax_type = invoice.tax_type

RECURSIVE SumOf(_)
SumOf(amounts) == IF amounts = <<>> THEN 0 ELSE amounts[1] + SumOf(Tail(amounts))

\* subtotal, tax_amount and the populated side totals of the invoice are
\* the sums over its rows
AggregatesAreSums(invoice, rows) ==
  /\ invoice.subtotal = SumOf([k \in 1..Len(rows) |-> rows[k].subtotal])
  /\ invoice.tax_amount = SumOf([k \in 1..Len(rows) |-> rows[k].tax_amount])
  /\ invoice.cgst_total # Null
       => invoice.cgst_total[1] = SumOf([k \in 1..Len(rows) |-> OrZero(rows[k].cgst)])
  /\ invoice.sgst_total # Null
       => invoice.sgst_total[1] = SumOf([k \in 1..Len(rows) |-> OrZero(rows[k].sgst)])
  /\ invoice.igst_total # Null
       => invoice.igst_total[1] = SumOf([k \in 1..Len(rows) |-> OrZero(rows[k].igst)])

\* C26: after a successful update_invoice the stored items of the invoice are
\* exactly the items built from the item list of the request, none of the
\* items it had before is left, and the aggregates are computed from them;
\* also when the item list of the request is empty or left out.
C26_UpdateRebuildsItems ==
  [][\A invoice_id \in InvoiceIds, invoice_in \in ItemsUpdateRequests :
       (update_invoice(invoice_id, invoice_in) /\ response'.status_code = 200)
         => /\ BuiltFrom(invoice_items'[invoice_id], invoice_in.items, invoices'[invoice_id])
            /\ AggregatesAreSums(invoices'[invoice_id], invoice_items'[invoice_id])
            /\ invoices'[invoice_id].total =
                 invoices'[invoice_id].subtotal + invoices'[invoice_id].tax_amount]_vars

\* an update without items was answered with success, and the invoice, which
\* had items, has none and sums of 0
C26_Witness ==
  /\ response = Ok
  /\ \E invoice_id \in DOMAIN invoices :
       /\ invoice_items[invoice_id] = <<>>
       /\ invoices[invoice_id].subtotal = 0
       /\ invoices[invoice_id].total = 0

\* C27: after every successful create_invoice or update_invoice the
\* invoice's subtotal, its tax_amount and its populated cgst_total,
\* sgst_total or igst_total each equal the sum of the field over the stored
\* items of the invoice.
C27_AggregatesAreSums ==
  [][/\ \A invoice_in \in ItemsCreateRequests :
          (create_invoice(invoice_in) /\ response'.status_code = 200)
            => AggregatesAreSums(invoices'[invoice_id_seq], invoice_items'[invoice_id_seq])
     /\ \A invoice_id \in InvoiceIds, invoice_in \in ItemsUpdateRequests :
          (update_invoice(invoice_id, invoice_in) /\ response'.status_code = 200)
            => AggregatesAreSums(invoices'[invoice_id], invoice_items'[invoice_id])]_vars

\* an invoice of two lines that both carry tax is stored under IGST, its
\* igst_total the sum of the two
C27_Witness ==
  /\ response = Ok
  /\ \E invoice_id \in DOMAIN invoices :
       /\ Len(invoice_items[invoice_id]) = 2
       /\ invoices[invoice_id].tax_type = IGST
       /\ invoice_items[invoice_id][1].tax_amount > 0
       /\ invoices[invoice_id].igst_total =
            Some(invoice_items[invoice_id][1].igst[1] + invoice_items[invoice_id][2].igst[1])
       /\ invoices[invoice_id].subtotal =
            invoice_items[invoice_id][1].subtotal + invoice_items[invoice_id][2].subtotal

(***************************************************************************)
(* SpecFrame: the four generators on the records of an invoice.  The       *)
(* business has a name or an empty one (the schema sets no least length),  *)
(* the customer an address or an empty one; the HTML engine and the full   *)
(* render succeed or fail.                                                 *)
(***************************************************************************)
FrameEnvs ==
  [business_name : {"Acme", ""}, customer_address : {"", "12 MG Road"},
   prepare : TierOutcomes, full : TierOutcomes, simplified : {"ok"},
   error_doc : {"ok"}, canvas : {"ok"},
   render : TierOutcomes, weasyprint : ImportOutcomes, xhtml2pdf : {"ImportError"}]

FrameCalls ==
  {Call("generate_invoice_pdf", env) : env \in {e \in FrameEnvs : e.render = "ok"}}
  \cup {Call("generate_invoice_pdf_html", env) : env \in FrameEnvs}
  \cup CodesCalls

InitFrame ==
  /\ InitStore
  /\ call \in FrameCalls

NextFrame ==
  \/ generate_invoice_pdf_call
  \/ generate_invoice_pdf_html_call
  \/ generate_gst_irp_json_call
  \/ invoice_to_nic_json_call

SpecFrame == InitFrame /\ [][NextFrame]_vars

(***************************************************************************)
(* What the generators leave unchanged, checked under SpecFrame.           *)
(***************************************************************************)
\* C28: generate_invoice_pdf, generate_invoice_pdf_html,
\* generate_gst_irp_json and invoice_to_nic_json leave every record passed to
\* them and every table as they found them: when a call returns, the
\* records are what the caller passed and the store is what it was.
C28_GeneratorsChangeNothing ==
  [][(call.outcome = Pending /\ call'.outcome # Pending)
       => /\ call'.records = call.args
          /\ UNCHANGED <<tables, invoice_id_seq, current_year, issued, sessions>>]_vars

(***************************************************************************)
(* The state code lookups.  A state name is a string; the lookups slice    *)
(* and fold it character by character.                                     *)
(***************************************************************************)
\* the characters of a string
Chars(s) == [i \in 1..Len(s) |-> SubSeq(s, i, i)]

\* str.lower() on one character
LowerChar(c) ==
  CASE c = "A" -> "a" [] c = "B" -> "b" [] c = "C" -> "c" [] c = "D" -> "d"
    [] c = "E" -> "e" [] c = "F" -> "f" [] c = "G" -> "g" [] c = "H" -> "h"
    [] c = "I" -> "i" [] c = "J" -> "j" [] c = "K" -> "k" [] c = "L" -> "l"
    [] c = "M" -> "m" [] c = "N" -> "n" [] c = "O" -> "o" [] c = "P" -> "p"
    [] c = "Q" -> "q" [] c = "R" -> "r" [] c = "S" -> "s" [] c = "T" -> "t"
    [] c = "U" -> "u" [] c = "V" -> "v" [] c = "W" -> "w" [] c = "X" -> "x"
    [] c = "Y" -> "y" [] c = "Z" -> "z"
    [] OTHER -> c

Lower(s) == [i \in 1..Len(s) |-> LowerChar(s[i])]

\* sub in s: sub occurs in s as a run of characters; the empty run occurs
\* in every string
Contains(s, sub) ==
  \E i \in 1..(Len(s) - Len(sub) + 1) : SubSeq(s, i, i + Len(sub) - 1) = sub

\* invoice_utils.get_state_code: the table, in the order the code writes it
state_codes ==
  << <<"JAMMU AND KASHMIR", "01">>, <<"HIMACHAL PRADESH", "02">>,
     <<"PUNJAB", "03">>, <<"CHANDIGARH", "04">>, <<"UTTARAKHAND", "05">>,
     <<"HARYANA", "06">>, <<"DELHI", "07">>, <<"RAJASTHAN", "08">>,
     <<"UTTAR PRADESH", "09">>, <<"BIHAR", "10">>, <<"SIKKIM", "11">>,
     <<"ARUNACHAL PRADESH", "12">>, <<"NAGALAND", "13">>, <<"MANIPUR", "14">>,
     <<"MIZORAM", "15">>, <<"TRIPURA", "16">>, <<"MEGHALAYA", "17">>,
     <<"ASSAM", "18">>, <<"WEST BENGAL", "19">>, <<"JHARKHAND", "20">>,
     <<"ODISHA", "21">>, <<"CHHATTISGARH", "22">>, <<"MADHYA PRADESH", "23">>,
     <<"GUJARAT", "24">>, <<"DADRA AND NAGAR HAVELI AND DAMAN AND DIU", "26">>,
     <<"MAHARASHTRA", "27">>, <<"ANDHRA PRADESH", "28">>, <<"KARNATAKA", "29">>,
     <<"GOA", "30">>, <<"LAKSHADWEEP", "31">>, <<"KERALA", "32">>,
     <<"TAMIL NADU", "33">>, <<"PUDUCHERRY", "34">>,
     <<"ANDAMAN AND NICOBAR ISLANDS", "35">>, <<"TELANGANA", "36">>,
     <<"LADAKH", "38">>, <<"OTHER TERRITORY", "97">>,
     <<"FOREIGN COUNTRY", "96">>, <<"CENTRE JURISDICTION", "99">> >>

\* invoice_utils.get_state_code: strip and upper-case the name, take the
\* entry with that key, else the first entry whose key occurs in the name or
\* in whose key the name occurs, else "97"
get_state_code(state_name) ==
  LET normalized_state == Upper(Strip(Chars(state_name)))
      direct == {i \in 1..Len(state_codes) : Chars(state_codes[i][1]) = normalized_state}
      partial == {i \in 1..Len(state_codes) :
                    \/ Contains(normalized_state, Chars(state_codes[i][1]))
                    \/ Contains(Chars(state_codes[i][1]), normalized_state)}
  IN IF direct # {} THEN state_codes[Min(direct)][2]
     ELSE IF partial # {} THEN state_codes[Min(partial)][2]
     ELSE "97"

\* nic_json_utils.get_state_code: the table, in the order the code writes it
nic_state_codes ==
  << <<"Andhra Pradesh", "37">>, <<"Arunachal Pradesh", "12">>, <<"Assam", "18">>,
     <<"Bihar", "10">>, <<"Chhattisgarh", "22">>, <<"Goa", "30">>,
     <<"Gujarat", "24">>, <<"Haryana", "06">>, <<"Himachal Pradesh", "02">>,
     <<"Jharkhand", "20">>, <<"Karnataka", "29">>, <<"Kerala", "32">>,
     <<"Madhya Pradesh", "23">>, <<"Maharashtra", "27">>, <<"Manipur", "14">>,
     <<"Meghalaya", "17">>, <<"Mizoram", "15">>, <<"Nagaland", "13">>,
     <<"Odisha", "21">>, <<"Punjab", "03">>, <<"Rajasthan", "08">>,
     <<"Sikkim", "11">>, <<"Tamil Nadu", "33">>, <<"Telangana", "36">>,
     <<"Tripura", "16">>, <<"Uttar Pradesh", "09">>, <<"Uttarakhand", "05">>,
     <<"West Bengal", "19">>, <<"Andaman and Nicobar Islands", "35">>,
     <<"Chandigarh", "04">>, <<"Dadra and Nagar Haveli and Daman and Diu", "26">>,
     <<"Delhi", "07">>, <<"Jammu and Kashmir", "01">>, <<"Ladakh", "38">>,
     <<"Lakshadweep", "31">>, <<"Puducherry", "34">> >>

\* nic_json_utils.get_state_code: the entry whose key is the name as given,
\* else the first entry whose lower-cased key occurs in the lower-cased name
\* or the other way round, else "07"
nic_get_state_code(state_name) ==
  LET direct == {i \in 1..Len(nic_state_codes) : nic_state_codes[i][1] = state_name}
      partial == {i \in 1..Len(nic_state_codes) :
                    \/ Contains(Lower(Chars(state_name)), Lower(Chars(nic_state_codes[i][1])))
                    \/ Contains(Lower(Chars(nic_state_codes[i][1])), Lower(Chars(state_name)))}
  IN IF direct # {} THEN nic_state_codes[Min(direct)][2]
     ELSE IF partial # {} THEN nic_state_codes[Min(partial)][2]
     ELSE "07"

get_state_code_call ==
  /\ call.fn = "invoice_utils.get_state_code"
  /\ call.outcome = Pending
  /\ call' = [call EXCEPT !.outcome = Returns(get_state_code(call.args[1]))]
  /\ StoreUnchanged

nic_get_state_code_call ==
  /\ call.fn = "nic_json_utils.get_state_code"
  /\ call.outcome = Pending
  /\ call' = [call EXCEPT !.outcome = Returns(nic_get_state_code(call.args[1]))]
  /\ StoreUnchanged

(***************************************************************************)
(* SpecStateCodes: the two lookups on the names of the states and union    *)
(* territories as either table spells them, on other spellings of them,    *)
(* and on names no table has.                                              *)
(***************************************************************************)
\* the 28 states and 8 union territories
StatesAndTerritories == {nic_state_codes[i][1] : i \in 1..Len(nic_state_codes)}

OtherNames ==
  {"", "goa", " Goa ", "andhra pradesh", "Pradesh", "Nadu", "Tamilnadu",
   "Orissa", "Pondicherry", "Jammu & Kashmir", "NCT of Delhi", "Texas", "Dubai"}

StateNames ==
  StatesAndTerritories
    \cup {state_codes[i][1] : i \in 1..Len(state_codes)}
    \cup OtherNames

StateCodeCalls ==
  {Call("invoice_utils.get_state_code", <<state_name>>) : state_name \in StateNames}
  \cup {Call("nic_json_utils.get_state_code", <<state_name>>) : state_name \in StateNames}

InitStateCodes ==
  /\ InitStore
  /\ call \in StateCodeCalls

NextStateCodes ==
  \/ get_state_code_call
  \/ nic_get_state_code_call

SpecStateCodes == InitStateCodes /\ [][NextStateCodes]_vars

(***************************************************************************)
(* The state codes, checked under SpecStateCodes.                          *)
(***************************************************************************)
\* the name is the key of no entry, no key occurs in it and it occurs in no
\* key, as the lookup compares them; the empty name matches no entry
MatchesNoEntry(fn, state_name) ==
  \/ state_name = ""
  \/ IF fn = "invoice_utils.get_state_code"
     THEN \A i \in 1..Len(state_codes) :
            LET key == Chars(state_codes[i][1])
                name == Upper(Strip(Chars(state_name)))
            IN ~Contains(name, key) /\ ~Contains(key, name)
     ELSE \A i \in 1..Len(nic_state_codes) :
            LET key == Lower(Chars(nic_state_codes[i][1]))
                name == Lower(Chars(state_name))
            IN ~Contains(name, key) /\ ~Contains(key, name)

DefaultCode(fn) == IF fn = "invoice_utils.get_state_code" THEN "97" ELSE "07"

\* C29: the code a lookup returns for the name of a state or union territory
\* is two digits and is the code the other lookup returns for it, and the
\* code it returns for a name that matches no entry of its table, the empty
\* name among them, is its default: "97" in the export lookup, "07" in the
\* NIC lookup.
C29_StateCodes ==
  (call.fn \in {"invoice_utils.get_state_code", "nic_json_utils.get_state_code"}
     /\ call.outcome.kind = "returns")
    => LET state_name == call.args[1]
           code == call.outcome.value
       IN /\ state_name \in StatesAndTerritories
               => /\ Len(code) = 2
                  /\ code = get_state_code(state_name)
                  /\ code = nic_get_state_code(state_name)
          /\ MatchesNoEntry(call.fn, state_name) => code = DefaultCode(call.fn)

(***************************************************************************)
(* PUT /invoices/{invoice_id} as its Session runs it beside other          *)
(* requests.  Each request has a Session of its own (get_db), and the      *)
(* Session a transaction under READ COMMITTED: the tables hold what is     *)
(* committed, the DELETE of the items is sent at once and deletes the rows *)
(* committed when it starts, the new items and the UPDATE of the invoice   *)
(* are sent by db.commit().  The rows of an invoice are kept in the order  *)
(* they were inserted, so the rows a DELETE has locked are the first       *)
(* `deleted` rows of the invoice for as long as its Session is open.       *)
(***************************************************************************)
\* the queries for the invoice, the business profile and the customer, the
\* tax type, and the fields set on the loaded invoice
load_invoice(w, invoice_id, invoice_in) ==
  LET invoice == invoices[invoice_id]
      bp_id == IF Truthy(invoice_in.business_profile_id)
               THEN FindBusinessProfile(invoice_in.business_profile_id, CurrentUser)
               ELSE invoice.business_profile_id
      customer_id == IF Truthy(invoice_in.customer_id)
                     THEN FindCustomer(invoice_in.customer_id, CurrentUser)
                     ELSE invoice.customer_id
  IN
  /\ sessions[w] = Closed
  /\ UNCHANGED <<tables, invoice_id_seq, current_year, issued, call>>
  /\ IF FindInvoice(invoice_id, CurrentUser) = NoId THEN
       /\ response' = Error(404, "Invoice not found")
       /\ UNCHANGED sessions
     ELSE IF bp_id = NoId THEN
       /\ response' = Error(404, "Business profile not found")
       /\ UNCHANGED sessions
     ELSE IF customer_id = NoId THEN
       /\ response' = Error(404, "Customer not found")
       /\ UNCHANGED sessions
     ELSE
       /\ sessions' = [sessions EXCEPT ![w] =
            [pc |-> "invoice_loaded", invoice_id |-> invoice_id, invoice_in |-> invoice_in,
             invoice |-> invoice,
             tax_type |-> DetermineTaxType(business_profiles[bp_id].state,
                                           Customers[customer_id].state),
             deleted |-> 0, waits_for |-> 0]]
       /\ UNCHANGED response

\* db.query(InvoiceItem).filter(invoice_id == invoice.id).delete(): the
\* statement sees the committed rows of the invoice.  Rows another open
\* Session has deleted are locked by it: the statement deletes the others
\* and waits for that Session to end.
delete_items(w) ==
  LET session == sessions[w]
      holders == {v \in Workers \ {w} :
                    /\ sessions[v].pc = "items_deleted"
                    /\ sessions[v].invoice_id = session.invoice_id
                    /\ sessions[v].deleted > 0}
  IN
  /\ session.pc = "invoice_loaded"
  /\ \A v \in Workers \ {w} :
       sessions[v].pc = "deleting" => sessions[v].invoice_id # session.invoice_id
  /\ sessions' = [sessions EXCEPT ![w] =
       [session EXCEPT !.pc = IF holders = {} THEN "items_deleted" ELSE "deleting",
                       !.deleted = Len(invoice_items[session.invoice_id]),
                       !.waits_for = IF holders = {} THEN 0 ELSE Min(holders)]]
  /\ UNCHANGED <<tables, invoice_id_seq, current_year, response, issued, call>>

\* the Session of w ends with a commit or a rollback and its row locks are
\* released.  A DELETE that waited for them goes on: after a commit the rows
\* are gone and the statement passes them by, and it has not seen the rows
\* the commit inserted; after a rollback it deletes them.
EndSession(w, committed) ==
  [v \in Workers |->
     IF v = w THEN Closed
     ELSE IF sessions[v].pc = "deleting" /\ sessions[v].waits_for = w
     THEN [sessions[v] EXCEPT !.pc = "items_deleted",
                              !.deleted = IF committed THEN @ - sessions[w].deleted ELSE @,
                              !.waits_for = 0]
     ELSE sessions[v]]

\* the UPDATE the flush sends for the invoice sets the columns whose value
\* differs from the one the Session loaded
FlushChanged(committed, loaded, updated) ==
  [f \in DOMAIN committed |-> IF updated[f] # loaded[f] THEN updated[f] ELSE committed[f]]

\* the items loop, the aggregates, db.add(invoice) and db.commit(): the
\* deleted rows go, the new rows are inserted after the rows committed since
\* the DELETE, the invoice row is updated
commit_update(w) ==
  LET session == sessions[w]
      invoice_id == session.invoice_id
      invoice_in == session.invoice_in
      rows == BuildItems(invoice_in.items, session.tax_type, CurrentUser)
      updated == UpdatedInvoice(session.invoice, invoice_in, session.tax_type, rows)
      kept == SubSeq(invoice_items[invoice_id], session.deleted + 1,
                     Len(invoice_items[invoice_id]))
  IN
  /\ session.pc = "items_deleted"
  /\ UNCHANGED <<business_profiles, products, invoice_id_seq, current_year, issued, call>>
  /\ IF ProductMissing(invoice_in.items, CurrentUser) THEN
       /\ UNCHANGED <<invoices, invoice_items>>
       /\ sessions' = EndSession(w, FALSE)
       /\ response' = Error(404, "Product not found")
     ELSE IF ~ForeignKeysHold(updated) THEN
       /\ UNCHANGED <<invoices, invoice_items>>
       /\ sessions' = EndSession(w, FALSE)
       /\ response' = Error(500, "Internal Server Error")
     ELSE
       /\ invoices' =
            Commit(invoices,
                   Put(invoices, invoice_id,
                       FlushChanged(invoices[invoice_id], session.invoice, updated)))
       /\ invoice_items' =
            Commit(invoice_items, Put(invoice_items, invoice_id, kept \o rows))
       /\ sessions' = EndSession(w, TRUE)
       /\ response' = Ok

(***************************************************************************)
(* SpecUpdates: an invoice of one line is created, and requests to update  *)
(* it are handled side by side.  The updates bring no item, the line the   *)
(* invoice has, another line, or a product the user does not have.         *)
(***************************************************************************)
UpdatesCreateRequests ==
  {InvoiceCreate(1, 1, NoneStr, NoneStr, Some(0), Some(0), OneItem)}

UpdatesUpdateRequests ==
  {InvoiceUpdate(NoId, NoId, NoneStr, NoneStr, Null, Null, items) :
     items \in {<<>>, OneItem, RiceItem, <<Item(9, 1, Rupees(100))>>}}

UpdatesInvoiceIds == {1, 9}

NextUpdates ==
  \/ \E invoice_in \in UpdatesCreateRequests :
       create_invoice(invoice_in)
  \/ \E w \in Workers, invoice_id \in UpdatesInvoiceIds, invoice_in \in UpdatesUpdateRequests :
       load_invoice(w, invoice_id, invoice_in)
  \/ \E w \in Workers : delete_items(w)
  \/ \E w \in Workers : commit_update(w)

SpecUpdates == Init /\ [][NextUpdates]_vars

(***************************************************************************)
(* Two updates of one invoice, checked under SpecUpdates.                  *)
(***************************************************************************)
\* C30: however two update_invoice requests on one invoice interleave, once
\* no request is in flight the stored items of every invoice are the items
\* of one request, and the invoice's subtotal, tax_amount and total are the
\* sums over the stored items.
C30_UpdatesSerialise ==
  (\A w \in Workers : sessions[w] = Closed)
    => \A invoice_id \in DOMAIN invoices :
         /\ \E invoice_in \in UpdatesCreateRequests \cup UpdatesUpdateRequests :
              BuiltFrom(invoice_items[invoice_id], invoice_in.items, invoices[invoice_id])
         /\ AggregatesAreSums(invoices[invoice_id], invoice_items[invoice_id])
         /\ invoices[invoice_id].total =
              invoices[invoice_id].subtotal + invoices[invoice_id].tax_amount
====
